---------------------------- MODULE Spec2Model ----------------------------
(***************************************************************************)
(* StudyQuest backend: the in-memory quiz session store                    *)
(* (backend/utils/quiz_sessions.py), the XP calculation                    *)
(* (backend/utils/progress_tracker.py, XPTracker.calculate_xp), the choice *)
(* of the next difficulty (backend/agents/adaptive_quiz_agent.py,          *)
(* AdaptiveQuizAgent.determine_next_difficulty) and the cache of AI        *)
(* responses (backend/utils/ai_cache.py, AIResponseCache).                 *)
(*                                                                         *)
(* Conventions.                                                            *)
(*  - time.time() is the variable now, in whole seconds.                   *)
(*  - uuid.uuid4().hex is a fresh id: the counter nextId, never reused.    *)
(*  - Python's None is the empty tuple, a present value x is <<x>>.        *)
(*  - A str that the code inspects character by character (the difficulty  *)
(*    given to calculate_xp, which is lower-cased) is a tuple of           *)
(*    one-character strings; a str the code only stores or compares is a   *)
(*    TLA+ string.                                                         *)
(*  - A float score is kept in hundredths (100.0 is 10000).                *)
(***************************************************************************)
EXTENDS Integers, Sequences, FiniteSets, TLC

VARIABLES
    sessions,   \* _sessions: session_id -> session dict
    nextId,     \* the next value uuid4 hands out
    now,        \* time.time()
    ticks,      \* how often the clock has advanced
    th,         \* per thread: where it is inside grade_session, and its locals
    last,       \* the grade_session call that finished last: what it returned or raised
    graded,     \* per session id: how many grade results have been returned
    xp_score,       \* calculate_xp: argument score
    xp_difficulty,  \* calculate_xp: argument difficulty
    xp_result,      \* calculate_xp: <<>> before the call, <<value>> after
    dn_current,     \* determine_next_difficulty: argument current_difficulty
    dn_score,       \* determine_next_difficulty: argument avg_score, in hundredths
    dn_preference,  \* determine_next_difficulty: argument user_preference
    dn_result,      \* determine_next_difficulty: <<>> before the call, <<value>> after
    cache,          \* AIResponseCache.cache: the entries in dict (insertion) order
    last_cleanup,   \* AIResponseCache._last_cleanup
    callers,        \* per caller of the cache: where it is inside get, and its locals
    clast,          \* the cache call that returned in the last step: its path and its result
    key_a,          \* generate_cache_key: the request that is set
    key_b,          \* generate_cache_key: the request that is looked up
    primary,        \* AdaptiveQuizAgent.MODELS['primary'], a class attribute
    fb,             \* the calls of the fallback functions, one per task
    ap_topic,       \* get_adaptive_quiz_params: the topic argument
    ap_preference,  \* get_adaptive_quiz_params: the user_preference argument
    ap_lookup,      \* get_adaptive_quiz_params: what the database returns
    ap_result,      \* get_adaptive_quiz_params: the value returned
    fl_start,       \* difficulty loop: the level it started from
    fl_band,        \* difficulty loop: the band every score of the run lies in
    fl_level,       \* difficulty loop: the current difficulty
    fl_steps,       \* difficulty loop: the number of applications so far
    fl_score,       \* difficulty loop: the average score of the last application
    pv_correct,     \* progress_v2.calculate_xp: argument correct
    pv_total,       \* progress_v2.calculate_xp: argument total
    pv_difficulty,  \* both calculate_xp: argument difficulty
    pv_result       \* <<>> before the calls, <<[v2, tracker]>> after: what each returned

vars == <<sessions, nextId, now, ticks, th, last, graded,
          xp_score, xp_difficulty, xp_result,
          dn_current, dn_score, dn_preference, dn_result,
          cache, last_cleanup, callers, clast,
          key_a, key_b, primary, fb,
          ap_topic, ap_preference, ap_lookup, ap_result,
          fl_start, fl_band, fl_level, fl_steps, fl_score,
          pv_correct, pv_total, pv_difficulty, pv_result>>

sessionVars == <<sessions, nextId, now, ticks, th, last, graded>>
xpVars == <<xp_score, xp_difficulty, xp_result>>
dnVars == <<dn_current, dn_score, dn_preference, dn_result>>
cacheVars == <<cache, last_cleanup, callers, clast>>
keyVars == <<key_a, key_b>>
fbVars == <<primary, fb>>
apVars == <<ap_topic, ap_preference, ap_lookup, ap_result>>
loopVars == <<fl_start, fl_band, fl_level, fl_steps, fl_score>>
pvVars == <<pv_correct, pv_total, pv_difficulty, pv_result>>
extraVars == <<keyVars, fbVars, apVars, loopVars, pvVars>>

----------------------------------------------------------------------------
(* Bounds of the model                                                      *)

NumThreads == 2
MaxSessions == 2
MaxTicks == 2
MaxQuestions == 2
MaxAnswers == 3
ScoreMargin == 3
NumCallers == 2
CacheMaxSize == 2
MaxCacheTicks == 2
MaxHits == 1
MaxEvictTicks == 3
MaxTotal == 10

Threads == 1..NumThreads
Users == {"alice", "bob"}
Topics == {"python"}
SessionDifficulties == {"medium"}

\* Session ids a caller may present: 0 is an id uuid4 never hands out.
SessionIds == 0..MaxSessions

\* The clock advances by one second or by a whole TTL at a time.
SESSION_TTL_SECONDS == 3600
TickSteps == {1, SESSION_TTL_SECONDS}

None == <<>>
Some(x) == <<x>>

\* Sequences over S of length at most n.
SeqUpTo(S, n) == UNION {[1..k -> S] : k \in 0..n}

\* Stored correct answers are option letters; a submitted answer is any str.
Letters == {"A", "B"}
SubmittedAnswers == {"A", "a"}
Question(a) == [answer |-> a]

\* Inputs of the store specification: one quiz and one answer list (what the
\* store does with a session does not depend on them).
StoreQuestionLists == {<<Question("A")>>}
StoreAnswerLists == {<<"A">>}
\* Inputs of the grading specification: every quiz and answer list in bounds.
AllQuestionLists == SeqUpTo({Question(a) : a \in Letters}, MaxQuestions)
AllAnswerLists == SeqUpTo(SubmittedAnswers, MaxAnswers)

----------------------------------------------------------------------------
(* quiz_sessions.py                                                         *)

\* The exceptions grade_session raises: class and message.
NotFoundError == [exc |-> "ValueError", msg |-> "Quiz session not found or expired"]
\* Faulty variant of ForbiddenError: the ownership failure raised as a ValueError.
ForbiddenAsValueError ==
    [exc |-> "ValueError", msg |-> "Not authorized to grade this session"]

ForbiddenError == [exc |-> "PermissionError", msg |-> "Not authorized to grade this session"]
AlreadyGradedError == [exc |-> "ValueError", msg |-> "Quiz session already submitted"]
NoError == [exc |-> "", msg |-> ""]

IdleThread == [pc |-> "idle", session_id |-> 0, user_id |-> "", answers |-> <<>>,
               questions |-> <<>>, topic |-> "", difficulty |-> ""]

NoCall == [op |-> "none", session_id |-> 0, user_id |-> "", error |-> NoError,
           result |-> None]

\* _cleanup_expired: the sessions left after the sweep at time t.
Expired(store, t) ==
    {sid \in DOMAIN store : t - store[sid].created_at > SESSION_TTL_SECONDS}

\* Faulty variant of CleanupExpired: the sweep is left out.
CleanupNothing(store, t) == store

CleanupExpired(store, t) ==
    [sid \in DOMAIN store \ Expired(store, t) |-> store[sid]]

\* Faulty variant of NewSession: the session is stored as completed.
NewSessionCompleted(user_id, topic, difficulty, questions, t) ==
    [user_id |-> user_id, topic |-> topic, difficulty |-> difficulty,
     questions |-> questions, completed |-> TRUE, created_at |-> t]

\* The dict create_session stores.
NewSession(user_id, topic, difficulty, questions, t) ==
    [user_id |-> user_id, topic |-> topic, difficulty |-> difficulty,
     questions |-> questions, completed |-> FALSE, created_at |-> t]

\* create_session: the sweep and the insert happen under _lock.
CreateSession(t, user_id, topic, difficulty, questions) ==
    LET session_id == nextId
        swept == CleanupExpired(sessions, now)
    IN  /\ th[t].pc = "idle"
        /\ sessions' = [sid \in DOMAIN swept \cup {session_id} |->
                          IF sid = session_id
                          THEN NewSession(user_id, topic, difficulty, questions, now)
                          ELSE swept[sid]]
        /\ nextId' = nextId + 1
        /\ UNCHANGED <<now, ticks, th, last, graded>>

\* Faulty variant of GradeRaise: the session is marked completed before the
\* checks, so a failing call leaves the mark behind.
GradeRaiseMarking(t, session_id, user_id, err, swept) ==
    /\ sessions' = IF session_id \in DOMAIN swept
                   THEN [swept EXCEPT ![session_id].completed = TRUE]
                   ELSE swept
    /\ last' = [op |-> "grade", session_id |-> session_id, user_id |-> user_id,
                error |-> err, result |-> None]
    /\ UNCHANGED <<th>>

\* grade_session, the part under _lock, when it raises.
GradeRaise(t, session_id, user_id, err, swept) ==
    /\ sessions' = swept
    /\ last' = [op |-> "grade", session_id |-> session_id, user_id |-> user_id,
                error |-> err, result |-> None]
    /\ UNCHANGED <<th>>

\* Faulty variant of GradeMark: the lock is left without setting completed.
GradeMarkNoFlag(t, session_id, user_id, answers, swept) ==
    /\ sessions' = swept
    /\ th' = [th EXCEPT ![t] =
                [pc |-> "grading", session_id |-> session_id, user_id |-> user_id,
                 answers |-> answers,
                 questions |-> swept[session_id].questions,
                 topic |-> swept[session_id].topic,
                 difficulty |-> swept[session_id].difficulty]]
    /\ UNCHANGED <<last>>

\* Faulty variant of GradeMark: grading also refreshes created_at.
GradeMarkTouch(t, session_id, user_id, answers, swept) ==
    /\ sessions' = [swept EXCEPT ![session_id].completed = TRUE,
                                 ![session_id].created_at = now]
    /\ th' = [th EXCEPT ![t] =
                [pc |-> "grading", session_id |-> session_id, user_id |-> user_id,
                 answers |-> answers,
                 questions |-> swept[session_id].questions,
                 topic |-> swept[session_id].topic,
                 difficulty |-> swept[session_id].difficulty]]
    /\ UNCHANGED <<last>>

\* grade_session, the part under _lock, when it marks the session completed
\* and leaves the lock with its locals questions, topic and difficulty.
GradeMark(t, session_id, user_id, answers, swept) ==
    /\ sessions' = [swept EXCEPT ![session_id].completed = TRUE]
    /\ th' = [th EXCEPT ![t] =
                [pc |-> "grading", session_id |-> session_id, user_id |-> user_id,
                 answers |-> answers,
                 questions |-> swept[session_id].questions,
                 topic |-> swept[session_id].topic,
                 difficulty |-> swept[session_id].difficulty]]
    /\ UNCHANGED <<last>>

\* Faulty variant of GradeLocked: the ownership check is left out.
GradeLockedNoOwnerCheck(t, session_id, user_id, answers) ==
    LET swept == CleanupExpired(sessions, now)
    IN  /\ th[t].pc = "idle"
        /\ IF session_id \notin DOMAIN swept
           THEN GradeRaise(t, session_id, user_id, NotFoundError, swept)
           ELSE IF swept[session_id].completed
           THEN GradeRaise(t, session_id, user_id, AlreadyGradedError, swept)
           ELSE GradeMark(t, session_id, user_id, answers, swept)
        /\ UNCHANGED <<nextId, now, ticks, graded>>

\* Faulty variant of GradeLocked: completion is checked before ownership.
GradeLockedCompletionFirst(t, session_id, user_id, answers) ==
    LET swept == CleanupExpired(sessions, now)
    IN  /\ th[t].pc = "idle"
        /\ IF session_id \notin DOMAIN swept
           THEN GradeRaise(t, session_id, user_id, NotFoundError, swept)
           ELSE IF swept[session_id].completed
           THEN GradeRaise(t, session_id, user_id, AlreadyGradedError, swept)
           ELSE IF swept[session_id].user_id # user_id
           THEN GradeRaise(t, session_id, user_id, ForbiddenError, swept)
           ELSE GradeMark(t, session_id, user_id, answers, swept)
        /\ UNCHANGED <<nextId, now, ticks, graded>>

\* grade_session, lines 84-102: everything done while _lock is held.
GradeLocked(t, session_id, user_id, answers) ==
    LET swept == CleanupExpired(sessions, now)
    IN  /\ th[t].pc = "idle"
        /\ IF session_id \notin DOMAIN swept
           THEN GradeRaise(t, session_id, user_id, NotFoundError, swept)
           ELSE IF swept[session_id].user_id # user_id
           THEN GradeRaise(t, session_id, user_id, ForbiddenError, swept)
           ELSE IF swept[session_id].completed
           THEN GradeRaise(t, session_id, user_id, AlreadyGradedError, swept)
           ELSE GradeMark(t, session_id, user_id, answers, swept)
        /\ UNCHANGED <<nextId, now, ticks, graded>>

\* q.get("answer", "")
QGetAnswer(q) == IF "answer" \in DOMAIN q THEN q.answer ELSE ""

\* answers[i] if i < len(answers) else None  (i is the 1-based position)
UserAnswer(answers, i) == IF i <= Len(answers) THEN Some(answers[i]) ELSE None

\* user_answer == correct_answer
IsCorrect(q, answers, i) == UserAnswer(answers, i) = Some(QGetAnswer(q))

\* The loop of lines 109-119: the number of correct answers.
CorrectCount(questions, answers) ==
    Cardinality({i \in 1..Len(questions) : IsCorrect(questions[i], answers, i)})

\* graded_questions: each question with user_answer and is_correct added.
GradedQuestions(questions, answers) ==
    [i \in 1..Len(questions) |->
        [answer |-> QGetAnswer(questions[i]),
         user_answer |-> UserAnswer(answers, i),
         is_correct |-> IsCorrect(questions[i], answers, i)]]

\* round(x, 2) of x = n/d * 100, in hundredths: the nearest hundredth, a tie
\* going to the even one.
RoundHundredths(n, d) ==
    LET q == (10000 * n) \div d
        r == (10000 * n) % d
    IN  IF 2 * r < d THEN q
        ELSE IF 2 * r > d THEN q + 1
        ELSE IF q % 2 = 0 THEN q ELSE q + 1

\* score = (correct / total) * 100 if total > 0 else 0, then round(score, 2)
Score(correct, total) == IF total > 0 THEN RoundHundredths(correct, total) ELSE 0

\* The dict grade_session returns.
GradeResult(questions, answers, topic, difficulty) ==
    LET total == Len(questions)
        correct == CorrectCount(questions, answers)
    IN  [correct |-> correct, total |-> total, score |-> Score(correct, total),
         topic |-> topic, difficulty |-> difficulty,
         questions |-> GradedQuestions(questions, answers)]

\* Faulty variant of GradeCompute: answers[i] is read without the test of
\* i < len(answers), so a list shorter than the quiz raises IndexError.
GradeComputeUnguarded(t) ==
    /\ th[t].pc = "grading"
    /\ IF Len(th[t].answers) < Len(th[t].questions)
       THEN /\ last' = [op |-> "grade", session_id |-> th[t].session_id,
                        user_id |-> th[t].user_id,
                        error |-> [exc |-> "IndexError", msg |-> "list index out of range"],
                        result |-> None]
            /\ graded' = graded
       ELSE /\ last' = [op |-> "grade", session_id |-> th[t].session_id,
                        user_id |-> th[t].user_id, error |-> NoError,
                        result |-> Some(GradeResult(th[t].questions, th[t].answers,
                                                    th[t].topic, th[t].difficulty))]
            /\ graded' = [graded EXCEPT ![th[t].session_id] = @ + 1]
    /\ th' = [th EXCEPT ![t] = IdleThread]
    /\ UNCHANGED <<sessions, nextId, now, ticks>>

\* grade_session, lines 104-130: grading outside the lock, on the locals.
GradeCompute(t) ==
    /\ th[t].pc = "grading"
    /\ last' = [op |-> "grade", session_id |-> th[t].session_id,
                user_id |-> th[t].user_id, error |-> NoError,
                result |-> Some(GradeResult(th[t].questions, th[t].answers,
                                            th[t].topic, th[t].difficulty))]
    /\ th' = [th EXCEPT ![t] = IdleThread]
    /\ graded' = [graded EXCEPT ![th[t].session_id] = @ + 1]
    /\ UNCHANGED <<sessions, nextId, now, ticks>>

\* Time passes.
Tick(d) ==
    /\ now' = now + d
    /\ ticks' = ticks + 1
    /\ UNCHANGED <<sessions, nextId, th, last, graded>>

----------------------------------------------------------------------------
(* progress_tracker.py: XPTracker                                            *)

EASY == <<"e", "a", "s", "y">>
MEDIUM == <<"m", "e", "d", "i", "u", "m">>
HARD == <<"h", "a", "r", "d">>
EXPERT == <<"e", "x", "p", "e", "r", "t">>

XP_VALUES ==
    [quiz_completed |-> 100, perfect_score |-> 50, study_session |-> 50,
     daily_streak |-> 25, first_topic |-> 150, topic_completed |-> 200]

\* Faulty variant of DIFFICULTY_BONUSES: hard pays no more than medium.
DIFFICULTY_BONUSES_Flat == (EASY :> 10) @@ (MEDIUM :> 20) @@ (HARD :> 20) @@ (EXPERT :> 50)

DIFFICULTY_BONUSES == (EASY :> 10) @@ (MEDIUM :> 20) @@ (HARD :> 30) @@ (EXPERT :> 50)

SCORE_TIER_BONUSES == [perfect |-> 50, excellent |-> 30, good |-> 15, passing |-> 0]

\* str.lower() on ASCII text.
UpperLetters == <<"A", "B", "C", "D", "E", "F", "G", "H", "I", "J", "K", "L", "M",
                  "N", "O", "P", "Q", "R", "S", "T", "U", "V", "W", "X", "Y", "Z">>
LowerLetters == <<"a", "b", "c", "d", "e", "f", "g", "h", "i", "j", "k", "l", "m",
                  "n", "o", "p", "q", "r", "s", "t", "u", "v", "w", "x", "y", "z">>

LowerChar(c) ==
    IF \E i \in 1..Len(UpperLetters) : UpperLetters[i] = c
    THEN LowerLetters[CHOOSE i \in 1..Len(UpperLetters) : UpperLetters[i] = c]
    ELSE c

Lower(str) == [i \in 1..Len(str) |-> LowerChar(str[i])]

Min(a, b) == IF a < b THEN a ELSE b
Max(a, b) == IF a > b THEN a ELSE b

\* Faulty variant of PerformanceBonus: the tier boundaries are exclusive.
PerformanceBonusExclusive(score) ==
    IF score > 100 THEN SCORE_TIER_BONUSES.perfect
    ELSE IF score > 90 THEN SCORE_TIER_BONUSES.excellent
    ELSE IF score > 80 THEN SCORE_TIER_BONUSES.good
    ELSE SCORE_TIER_BONUSES.passing

\* calculate_xp, lines 181-189: the tier bonus of a clamped score.
PerformanceBonus(score) ==
    IF score >= 100 THEN SCORE_TIER_BONUSES.perfect
    ELSE IF score >= 90 THEN SCORE_TIER_BONUSES.excellent
    ELSE IF score >= 80 THEN SCORE_TIER_BONUSES.good
    ELSE SCORE_TIER_BONUSES.passing

\* Faulty variant of calculate_xp: the difficulty is not lower-cased.
calculate_xp_CaseSensitive(score, difficulty) ==
    LET clamped == Max(0, Min(100, score))
        level == IF difficulty \in DOMAIN DIFFICULTY_BONUSES THEN difficulty ELSE MEDIUM
    IN  XP_VALUES.quiz_completed + DIFFICULTY_BONUSES[level] + PerformanceBonus(clamped)

\* XPTracker.calculate_xp(score, difficulty)
calculate_xp(score, difficulty) ==
    LET clamped == Max(0, Min(100, score))
        lowered == Lower(difficulty)
        level == IF lowered \in DOMAIN DIFFICULTY_BONUSES THEN lowered ELSE MEDIUM
        base_xp == XP_VALUES.quiz_completed
        difficulty_bonus == DIFFICULTY_BONUSES[level]
        performance_bonus == PerformanceBonus(clamped)
    IN  base_xp + difficulty_bonus + performance_bonus

\* Faulty variant of progress_v2_calculate_xp: the difficulty is looked up as
\* it was given.
progress_v2_calculate_xp_AsGiven(correct, total, difficulty) ==
    LET difficulty_bonus ==
            IF difficulty \in DOMAIN DIFFICULTY_BONUSES
            THEN DIFFICULTY_BONUSES[difficulty] ELSE 20
        score_bonus ==
            IF total > 0 /\ 100 * correct = 100 * total THEN 50
            ELSE IF total > 0 /\ 100 * correct >= 90 * total THEN 30
            ELSE IF total > 0 /\ 100 * correct >= 80 * total THEN 15
            ELSE 0
    IN  100 + difficulty_bonus + score_bonus

\* routes/progress_v2.py, calculate_xp(correct, total, difficulty). score is
\* (correct / total) * 100, or 0 when total is 0; it is compared with a tier
\* boundary b as 100 * correct against b * total, which is what the float
\* comparison yields for totals that a double holds exactly.
progress_v2_calculate_xp(correct, total, difficulty) ==
    LET base_xp == 100
        lowered == Lower(difficulty)
        difficulty_bonus ==
            IF lowered = EASY THEN 10
            ELSE IF lowered = MEDIUM THEN 20
            ELSE IF lowered = HARD THEN 30
            ELSE IF lowered = EXPERT THEN 50
            ELSE 20
        score_bonus ==
            IF total > 0 /\ 100 * correct = 100 * total THEN 50
            ELSE IF total > 0 /\ 100 * correct >= 90 * total THEN 30
            ELSE IF total > 0 /\ 100 * correct >= 80 * total THEN 15
            ELSE IF total > 0 /\ 100 * correct >= 70 * total THEN 0
            ELSE 0
    IN  base_xp + difficulty_bonus + score_bonus

\* int(score) of calculate_quiz_xp on the percentage of correct answers
IntPercent(correct, total) == (100 * correct) \div total

\* One quiz result handed to both implementations.
CompareXP ==
    /\ pv_result = None
    /\ pv_result' = Some([v2 |-> progress_v2_calculate_xp(pv_correct, pv_total, pv_difficulty),
                          tracker |-> calculate_xp(IntPercent(pv_correct, pv_total),
                                                   pv_difficulty)])
    /\ UNCHANGED <<pv_correct, pv_total, pv_difficulty>>

\* A call of calculate_xp on the arguments drawn at the start.
CalculateXP ==
    /\ xp_result = None
    /\ xp_result' = Some(calculate_xp(xp_score, xp_difficulty))
    /\ UNCHANGED <<xp_score, xp_difficulty>>
----------------------------------------------------------------------------
(* adaptive_quiz_agent.py: AdaptiveQuizAgent.determine_next_difficulty      *)
(* An Optional[str] argument is None or Some(string); avg_score is None or  *)
(* Some(number of hundredths).                                              *)

INCREASE_THRESHOLD == 80
DECREASE_THRESHOLD == 50
DIFFICULTY_LEVELS == <<EASY, MEDIUM, HARD, EXPERT>>

\* x in DIFFICULTY_LEVELS
InLevels(x) == \E i \in 1..Len(DIFFICULTY_LEVELS) : DIFFICULTY_LEVELS[i] = x

\* DIFFICULTY_LEVELS.index(x), counted from 0 as list.index counts
LevelIndex(x) == (CHOOSE i \in 1..Len(DIFFICULTY_LEVELS) : DIFFICULTY_LEVELS[i] = x) - 1

\* Faulty variant of AdjustByScore: a score equal to the lower threshold
\* decreases the level.
AdjustByScoreInclusive(current_difficulty, current_idx, avg_score) ==
    IF avg_score >= INCREASE_THRESHOLD * 100
    THEN DIFFICULTY_LEVELS[Min(current_idx + 1, Len(DIFFICULTY_LEVELS) - 1) + 1]
    ELSE IF avg_score <= DECREASE_THRESHOLD * 100
    THEN DIFFICULTY_LEVELS[Max(current_idx - 1, 0) + 1]
    ELSE Lower(current_difficulty)

\* Faulty variant of AdjustByScore: the step down is not held at index 0, and
\* DIFFICULTY_LEVELS[-1] is the last level.
AdjustByScoreUnclamped(current_difficulty, current_idx, avg_score) ==
    IF avg_score >= INCREASE_THRESHOLD * 100
    THEN DIFFICULTY_LEVELS[Min(current_idx + 1, Len(DIFFICULTY_LEVELS) - 1) + 1]
    ELSE IF avg_score < DECREASE_THRESHOLD * 100
    THEN IF current_idx = 0
         THEN DIFFICULTY_LEVELS[Len(DIFFICULTY_LEVELS)]
         ELSE DIFFICULTY_LEVELS[current_idx]
    ELSE Lower(current_difficulty)

\* lines 88-100: the adjustment by score
AdjustByScore(current_difficulty, current_idx, avg_score) ==
    IF avg_score >= INCREASE_THRESHOLD * 100
    THEN DIFFICULTY_LEVELS[Min(current_idx + 1, Len(DIFFICULTY_LEVELS) - 1) + 1]
    ELSE IF avg_score < DECREASE_THRESHOLD * 100
    THEN DIFFICULTY_LEVELS[Max(current_idx - 1, 0) + 1]
    ELSE Lower(current_difficulty)

\* Faulty variant of PreferenceApplies: the preference is never taken.
PreferenceIgnored(user_preference) == FALSE

\* lines 74-75: the preference is present, not empty and a level once lower-cased
PreferenceApplies(user_preference) ==
    /\ user_preference # None
    /\ user_preference[1] # <<>>
    /\ InLevels(Lower(user_preference[1]))

\* Faulty variant of IsNewUser: only a missing score counts as no history, a
\* missing current difficulty is read as an unrecognized one.
IsNewUserScoreOnly(current_difficulty, avg_score) == avg_score = None

\* lines 78-79: no history
IsNewUser(current_difficulty, avg_score) ==
    current_difficulty = None \/ avg_score = None

\* lines 82-85: the position of the current difficulty, 1 if it is no level
CurrentIndex(current_difficulty) ==
    IF current_difficulty # None /\ InLevels(Lower(current_difficulty[1]))
    THEN LevelIndex(Lower(current_difficulty[1]))
    ELSE 1

\* AdaptiveQuizAgent.determine_next_difficulty(current_difficulty, avg_score,
\* user_preference)
determine_next_difficulty(current_difficulty, avg_score, user_preference) ==
    IF PreferenceApplies(user_preference)
    THEN Lower(user_preference[1])
    ELSE IF IsNewUser(current_difficulty, avg_score)
    THEN MEDIUM
    ELSE AdjustByScore(IF current_difficulty = None THEN <<>> ELSE current_difficulty[1],
                       CurrentIndex(current_difficulty), avg_score[1])

\* A call of determine_next_difficulty on the arguments drawn at the start.
DetermineNext ==
    /\ dn_result = None
    /\ dn_result' = Some(determine_next_difficulty(dn_current, dn_score, dn_preference))
    /\ UNCHANGED <<dn_current, dn_score, dn_preference>>

----------------------------------------------------------------------------
(* ai_cache.py: AIResponseCache                                             *)
(* A str is a tuple of one-character strings. The keyword parameters of a   *)
(* call are the sequence of <<name, value>> pairs in the order they were    *)
(* written. hashlib.sha256 is taken to be free of collisions: the key is    *)
(* the string that is hashed. A dict is the sequence of its entries in      *)
(* insertion order. One locked section reads the clock once.                *)

\* The characters of the model in code-point order.
CodePoints ==
    <<"\t", "\n", " ", "0", "1", "2", "3", "4", "5", "6", "7", "8", "9", ":">>
        \o UpperLetters \o <<"_">> \o LowerLetters \o <<"|">>

CodePoint(c) == CHOOSE i \in 1..Len(CodePoints) : CodePoints[i] = c

\* a < b on str
StrLess(a, b) ==
    \E i \in 1..(Len(a) + 1) :
        /\ i <= Len(b)
        /\ \A j \in 1..(i - 1) : a[j] = b[j]
        /\ i <= Len(a) => CodePoint(a[i]) < CodePoint(b[i])

Whitespace == {" ", "\t", "\n"}

\* str.split(): the maximal runs of characters that are not whitespace
SplitWords(str) ==
    LET isWord(i) == str[i] \notin Whitespace
        starts == {i \in 1..Len(str) : isWord(i) /\ (i = 1 \/ ~isWord(i - 1))}
        endOf(i) == CHOOSE j \in i..Len(str) :
                        /\ \A k \in i..j : isWord(k)
                        /\ j = Len(str) \/ ~isWord(j + 1)
        nth(n) == CHOOSE i \in starts : Cardinality({k \in starts : k < i}) = n - 1
    IN  [n \in 1..Cardinality(starts) |-> SubSeq(str, nth(n), endOf(nth(n)))]

\* sep.join(parts)
RECURSIVE Join(_, _)
Join(sep, parts) ==
    IF parts = <<>> THEN <<>>
    ELSE IF Len(parts) = 1 THEN parts[1]
    ELSE parts[1] \o sep \o Join(sep, Tail(parts))

\* str(n) of a natural number
RECURSIVE Decimal(_)
Decimal(n) ==
    LET digit == <<CodePoints[4 + (n % 10)]>>
    IN  IF n < 10 THEN digit ELSE Decimal(n \div 10) \o digit

\* A keyword argument's value: a str or an int
PyStr(chars) == [type |-> "str", str |-> chars, int |-> 0]
PyInt(n) == [type |-> "int", str |-> <<>>, int |-> n]

\* f"{v}": a str as it is, a number in decimal
FormatValue(v) == IF v.type = "int" THEN Decimal(v.int) ELSE v.str

\* Faulty variant of SortedItems: the pairs in the order of the call.
SortedItemsAsGiven(kwargs) == kwargs

\* sorted(kwargs.items()): the pairs in the order of their names
SortedItems(kwargs) ==
    LET rank(i) == Cardinality({j \in 1..Len(kwargs) : StrLess(kwargs[j][1], kwargs[i][1])})
    IN  [n \in 1..Len(kwargs) |-> kwargs[CHOOSE i \in 1..Len(kwargs) : rank(i) = n - 1]]

\* Faulty variant of generate_cache_key: the prompt is taken as it is written.
generate_cache_key_Raw(prompt, model, kwargs) ==
    LET items == SortedItems(kwargs)
        key_parts == <<model, prompt>> \o
                     [n \in 1..Len(items) |-> items[n][1] \o <<":">> \o FormatValue(items[n][2])]
    IN  Join(<<"|">>, key_parts)

\* AIResponseCache.generate_cache_key(prompt, model, **kwargs)
generate_cache_key(prompt, model, kwargs) ==
    LET normalized_prompt == Join(<<" ">>, SplitWords(prompt))
        items == SortedItems(kwargs)
        key_parts == <<model, normalized_prompt>> \o
                     [n \in 1..Len(items) |-> items[n][1] \o <<":">> \o FormatValue(items[n][2])]
    IN  Join(<<"|">>, key_parts)

\* quiz_cache = AIResponseCache(ttl_seconds=3600), with max_size CacheMaxSize
CACHE_TTL == 3600
CLEANUP_INTERVAL == 300

Callers == 1..NumCallers


NoRequest == [prompt |-> <<>>, model |-> <<>>, kwargs |-> <<>>]
IdleCaller == [pc |-> "idle", request |-> NoRequest, current_time |-> 0]
NoCacheCall == [op |-> "none", branch |-> "", result |-> None]

\* One more request than the cache has room for, each with a key of its own.
Prompts == {<<CodePoints[41 + n]>> : n \in 1..(CacheMaxSize + 1)}
CacheRequests == {[prompt |-> p, model |-> <<"m">>, kwargs |-> <<>>] : p \in Prompts}

\* Requests that differ in whitespace, in letter case, in the order and the
\* type of their parameters, and in where a separator character stands.
KeyPrompts ==
    {<<"a", " ", "b">>, <<" ", "a", " ", " ", "b">>, <<"a", "\t", "b">>,
     <<"a", "\n", "b", " ">>, <<"A", " ", "b">>, <<"a", "b">>, <<"b">>,
     <<"a", "|", "b">>, <<"b", "|", "d", ":", "e">>}
KeyModels == {<<"m">>, <<"m", "|", "a">>}
KeyParams ==
    {<<>>,
     <<<<<<"d">>, PyStr(<<"e">>)>>>>,
     <<<<<<"n">>, PyInt(5)>>>>,
     <<<<<<"n">>, PyStr(<<"5">>)>>>>,
     <<<<<<"d">>, PyStr(<<"e">>)>>, <<<<"n">>, PyInt(5)>>>>,
     <<<<<<"n">>, PyInt(5)>>, <<<<"d">>, PyStr(<<"e">>)>>>>,
     <<<<<<"d">>, PyStr(<<"e", "|", "n", ":", "5">>)>>>>}
KeyRequests ==
    {[prompt |-> p, model |-> m, kwargs |-> k] :
        p \in KeyPrompts, m \in KeyModels, k \in KeyParams}

\* generate_cache_key on each request of the model, computed once.
CacheKeys ==
    [request \in CacheRequests \cup KeyRequests |->
        generate_cache_key(request.prompt, request.model, request.kwargs)]

KeyOf(request) == CacheKeys[request]

\* Position of the entry stored under key, 0 if there is none.
Find(store, key) ==
    IF \E i \in 1..Len(store) : store[i].key = key
    THEN CHOOSE i \in 1..Len(store) : store[i].key = key
    ELSE 0

\* del store[key] of the entry at position i
RemoveAt(store, i) == SubSeq(store, 1, i - 1) \o SubSeq(store, i + 1, Len(store))

\* Faulty variant of Put: an entry that is overwritten keeps its hit count.
PutKeepsHits(store, entry) ==
    IF Find(store, entry.key) # 0
    THEN [store EXCEPT ![Find(store, entry.key)] =
            [entry EXCEPT !.hits = store[Find(store, entry.key)].hits]]
    ELSE Append(store, entry)

\* store[key] = entry: in place if the key is stored, at the end if not
Put(store, entry) ==
    IF Find(store, entry.key) # 0
    THEN [store EXCEPT ![Find(store, entry.key)] = entry]
    ELSE Append(store, entry)

\* Faulty variant of _evict_lru: the entry inserted first is evicted.
EvictOldestInserted(store) == IF store = <<>> THEN store ELSE Tail(store)

\* _evict_lru: min() takes the first entry in dict order among those with the
\* smallest last_accessed
_evict_lru(store) ==
    IF store = <<>> THEN store
    ELSE LET lru == CHOOSE i \in 1..Len(store) :
                        /\ \A j \in 1..Len(store) : store[j].last_accessed >= store[i].last_accessed
                        /\ \A j \in 1..(i - 1) : store[j].last_accessed > store[i].last_accessed
         IN  RemoveAt(store, lru)

\* The entry that set writes.
NewEntry(key, request, response, t) ==
    [key |-> key, response |-> response, timestamp |-> t, last_accessed |-> t,
     hits |-> 0, model |-> request.model,
     metadata |-> {request.kwargs[i] : i \in 1..Len(request.kwargs)}]

\* get, lines 83-84 and _cleanup_expired, lines 167-171: the clock and
\* _last_cleanup are read without the lock.
CacheGetBegin(c, request) ==
    /\ callers[c].pc = "idle"
    /\ callers' = [callers EXCEPT ![c] =
           [pc |-> IF now - last_cleanup < CLEANUP_INTERVAL THEN "lookup" ELSE "sweep",
            request |-> request,
            current_time |-> IF now - last_cleanup < CLEANUP_INTERVAL THEN 0 ELSE now]]
    /\ clast' = NoCacheCall
    /\ UNCHANGED <<cache, last_cleanup, now, ticks>>

\* Faulty variant of SweepKeeps: an entry whose age is the TTL is swept too.
SweepKeepsYounger(entry, current_time) == current_time - entry.timestamp < CACHE_TTL

\* _cleanup_expired, line 177: the entries that are not expired at current_time
SweepKeeps(entry, current_time) == ~(current_time - entry.timestamp > CACHE_TTL)

\* _cleanup_expired, lines 173-183, with the time read before the lock was taken
CacheSweep(c) ==
    /\ callers[c].pc = "sweep"
    /\ cache' = SelectSeq(cache, LAMBDA entry : SweepKeeps(entry, callers[c].current_time))
    /\ last_cleanup' = callers[c].current_time
    /\ callers' = [callers EXCEPT ![c].pc = "lookup", ![c].current_time = 0]
    /\ clast' = NoCacheCall
    /\ UNCHANGED <<now, ticks>>

\* Faulty variant of Hit: a read renews the entry's timestamp.
HitRefreshes(store, i, t) ==
    [store EXCEPT ![i].hits = @ + 1, ![i].last_accessed = t, ![i].timestamp = t]

\* Faulty variant of Hit: the count is written from a stale read.
HitLosesUpdate(store, i, t) == [store EXCEPT ![i].hits = 1, ![i].last_accessed = t]

\* Faulty variant of Hit: the entry is returned without being counted.
HitUncounted(store, i, t) == [store EXCEPT ![i].last_accessed = t]

\* get, lines 100-102
Hit(store, i, t) == [store EXCEPT ![i].hits = @ + 1, ![i].last_accessed = t]

\* Faulty variant of IsExpired: an entry never expires.
NeverExpired(entry, t) == FALSE

\* get, line 95
IsExpired(entry, t) == t - entry.timestamp > CACHE_TTL

\* get, lines 86-104
CacheLookup(c) ==
    /\ callers[c].pc = "lookup"
    /\ LET cache_key == KeyOf(callers[c].request)
           i == Find(cache, cache_key)
       IN  IF i = 0
           THEN /\ cache' = cache
                /\ clast' = [op |-> "get", branch |-> "miss", result |-> None]
           ELSE IF IsExpired(cache[i], now)
           THEN /\ cache' = RemoveAt(cache, i)
                /\ clast' = [op |-> "get", branch |-> "expired", result |-> None]
           ELSE /\ cache' = Hit(cache, i, now)
                /\ clast' = [op |-> "get", branch |-> "hit",
                             result |-> Some(cache[i].response)]
    /\ callers' = [callers EXCEPT ![c] = IdleCaller]
    /\ UNCHANGED <<last_cleanup, now, ticks>>

\* Faulty variant of MakeRoom: room is made only once the store is over its size.
MakeRoomLate(store, cache_key) ==
    IF Find(store, cache_key) = 0 /\ Len(store) > CacheMaxSize
    THEN _evict_lru(store)
    ELSE store

\* set, lines 120-121
MakeRoom(store, cache_key) ==
    IF Find(store, cache_key) = 0 /\ Len(store) >= CacheMaxSize
    THEN _evict_lru(store)
    ELSE store

\* Faulty variant of CacheSet: entries past their TTL are dropped before the
\* capacity test, so that expired entries are the first to go.
CacheSetSweeps(c, request, response) ==
    /\ callers[c].pc = "idle"
    /\ LET cache_key == KeyOf(request)
           live == SelectSeq(cache, LAMBDA entry : ~IsExpired(entry, now) \/ entry.key = cache_key)
       IN  /\ cache' = Put(MakeRoom(live, cache_key),
                           NewEntry(cache_key, request, response, now))
           /\ clast' = [op |-> "set",
                        branch |-> IF Find(cache, cache_key) # 0 THEN "replace"
                                   ELSE IF Len(cache) >= CacheMaxSize THEN "evict"
                                   ELSE "insert",
                        result |-> None]
    /\ UNCHANGED <<last_cleanup, callers, now, ticks>>

\* set(prompt, model, response, **kwargs)
CacheSet(c, request, response) ==
    /\ callers[c].pc = "idle"
    /\ LET cache_key == KeyOf(request)
       IN  /\ cache' = Put(MakeRoom(cache, cache_key),
                           NewEntry(cache_key, request, response, now))
           /\ clast' = [op |-> "set",
                        branch |-> IF Find(cache, cache_key) # 0 THEN "replace"
                                   ELSE IF MakeRoom(cache, cache_key) # cache THEN "evict"
                                   ELSE "insert",
                        result |-> None]
    /\ UNCHANGED <<last_cleanup, callers, now, ticks>>

\* Faulty variant of CacheInvalidate: the entry is reported and left stored.
CacheInvalidateKeeps(c, request) ==
    /\ callers[c].pc = "idle"
    /\ LET cache_key == KeyOf(request)
           i == Find(cache, cache_key)
       IN  /\ cache' = cache
           /\ clast' = [op |-> "invalidate", branch |-> IF i # 0 THEN "removed" ELSE "absent",
                        result |-> Some(i # 0)]
    /\ UNCHANGED <<last_cleanup, callers, now, ticks>>

\* invalidate(prompt, model, **kwargs)
CacheInvalidate(c, request) ==
    /\ callers[c].pc = "idle"
    /\ LET cache_key == KeyOf(request)
           i == Find(cache, cache_key)
       IN  /\ cache' = IF i # 0 THEN RemoveAt(cache, i) ELSE cache
           /\ clast' = [op |-> "invalidate", branch |-> IF i # 0 THEN "removed" ELSE "absent",
                        result |-> Some(i # 0)]
    /\ UNCHANGED <<last_cleanup, callers, now, ticks>>

\* clear()
CacheClear(c) ==
    /\ callers[c].pc = "idle"
    /\ cache' = <<>>
    /\ clast' = [op |-> "clear", branch |-> "", result |-> None]
    /\ UNCHANGED <<last_cleanup, callers, now, ticks>>

\* sum(entry['hits'] for entry in self.cache.values())
RECURSIVE SumHits(_)
SumHits(store) == IF store = <<>> THEN 0 ELSE Head(store).hits + SumHits(Tail(store))

\* sum(current_time - entry['timestamp'] for entry in self.cache.values())
RECURSIVE SumAge(_, _)
SumAge(store, current_time) ==
    IF store = <<>> THEN 0
    ELSE (current_time - Head(store).timestamp) + SumAge(Tail(store), current_time)

\* get_stats, lines 192-215: the entry count, the hit total and the average
\* age in whole seconds; the byte size of the JSON text is left out.
get_stats(store, current_time) ==
    IF store = <<>>
    THEN [total_entries |-> 0, total_hits |-> 0, avg_age_seconds |-> 0]
    ELSE [total_entries |-> Len(store),
          total_hits |-> SumHits(store),
          avg_age_seconds |-> SumAge(store, current_time) \div Len(store)]

\* get_stats()
CacheGetStats(c) ==
    /\ callers[c].pc = "idle"
    /\ clast' = [op |-> "get_stats", branch |-> "",
                 result |-> Some(get_stats(cache, now))]
    /\ UNCHANGED <<cache, last_cleanup, callers, now, ticks>>

\* get_entry_info, lines 232-245
get_entry_info(store, cache_key, current_time) ==
    LET i == Find(store, cache_key)
    IN  IF i = 0 THEN None
        ELSE Some([cache_key |-> cache_key,
                   model |-> store[i].model,
                   age_seconds |-> current_time - store[i].timestamp,
                   hits |-> store[i].hits,
                   expires_in_seconds |-> CACHE_TTL - (current_time - store[i].timestamp),
                   metadata |-> store[i].metadata])

\* get_entry_info(prompt, model, **kwargs)
CacheGetEntryInfo(c, request) ==
    /\ callers[c].pc = "idle"
    /\ clast' = [op |-> "get_entry_info",
                 branch |-> IF Find(cache, KeyOf(request)) = 0 THEN "absent" ELSE "found",
                 result |-> get_entry_info(cache, KeyOf(request), now)]
    /\ UNCHANGED <<cache, last_cleanup, callers, now, ticks>>

\* time.time() advances while no lock is held.
CacheTick(d) ==
    /\ now' = now + d
    /\ ticks' = ticks + 1
    /\ clast' = NoCacheCall
    /\ UNCHANGED <<cache, last_cleanup, callers>>

----------------------------------------------------------------------------
(* The session store                                                        *)

InitSessions ==
    /\ sessions = << >>
    /\ nextId = 1
    /\ now = 0
    /\ ticks = 0
    /\ th = [t \in Threads |-> IdleThread]
    /\ last = NoCall
    /\ graded = [sid \in SessionIds |-> 0]

InitXPIdle ==
    /\ xp_score = 0
    /\ xp_difficulty = <<>>
    /\ xp_result = None

InitDNIdle ==
    /\ dn_current = None
    /\ dn_score = None
    /\ dn_preference = None
    /\ dn_result = None

\* __init__, lines 38-43, at time 0
InitCache ==
    /\ cache = <<>>
    /\ last_cleanup = 0
    /\ callers = [c \in Callers |-> IdleCaller]
    /\ clast = NoCacheCall

----------------------------------------------------------------------------
(* The model fallback of quiz generation (agents/adaptive_quiz_agent.py and *)
(* agents/quiz_agent.py). Tasks of one event loop interleave at an await.   *)

NumTasks == 2
Tasks == 1..NumTasks

\* AdaptiveQuizAgent.MODELS, lines 41-48
PRIMARY_MODEL == "gemini-2.0-flash-exp"
FALLBACK_MODELS == <<"llama-3.2-3b-instruct", "llama-3.2-1b-instruct", "qwen-2.5-7b-instruct">>

\* generate_quiz_with_fallback, lines 231-237
QUIZ_MODELS ==
    <<"gemini-2.0-flash-exp", "llama-3.2-3b-instruct", "llama-3.2-1b-instruct",
      "qwen-2.5-7b-instruct", "phi-3-mini-128k-instruct">>

IdleTask ==
    [pc |-> "idle", kind |-> "", models |-> <<>>, idx |-> 0, original_model |-> "",
     tried |-> <<>>, failed |-> <<>>, last_error |-> None, result |-> None]

\* The exception an attempt with a model ends in.
ErrorOf(type, model) == [type |-> type, model |-> model]

\* One iteration of the loop of generate_adaptive_quiz_with_fallback, lines
\* 443-453, up to the await of the HTTP call or, on a cache hit, through the
\* return: the class attribute is saved, set to the model and read by
\* generate_adaptive_quiz for the cache key and the payload.
AdaptiveIteration(task, current_primary, cache_hit) ==
    LET model == task.models[task.idx]
        begun == [task EXCEPT !.original_model = current_primary,
                              !.tried = Append(@, model)]
    IN  IF cache_hit
        THEN [task |-> [begun EXCEPT !.pc = "returned",
                                     !.result = Some([model |-> model, cached |-> TRUE])],
              primary |-> current_primary]
        ELSE [task |-> [begun EXCEPT !.pc = "await"],
              primary |-> model]

\* The loop on an input that generate_adaptive_quiz or generate_quiz rejects
\* before its first await (no API key, empty notes): every iteration raises
\* ValueError and restores the attribute, and the function raises.
Rejected(task) ==
    [task EXCEPT !.pc = "raised",
                 !.idx = Len(task.models),
                 !.tried = task.models,
                 !.failed = task.models,
                 !.last_error = Some(ErrorOf("ValueError", task.models[Len(task.models)]))]

\* generate_adaptive_quiz_with_fallback, lines 439-453, up to its first await
AdaptiveStart(t, valid, cache_hit) ==
    /\ fb[t].pc = "idle"
    /\ LET task == [IdleTask EXCEPT !.kind = "adaptive",
                                    !.models = <<primary>> \o FALLBACK_MODELS,
                                    !.idx = 1]
           next == AdaptiveIteration(task, primary, cache_hit)
       IN  IF valid
           THEN fb' = [fb EXCEPT ![t] = next.task] /\ primary' = next.primary
           ELSE fb' = [fb EXCEPT ![t] = [Rejected(task) EXCEPT !.original_model = primary]]
                /\ primary' = primary

\* generate_adaptive_quiz_with_fallback, lines 450-467, from the return of the
\* HTTP call to the next await, the return or the raise
AdaptiveResume(t, ok, cache_hit) ==
    /\ fb[t].pc = "await" /\ fb[t].kind = "adaptive"
    /\ LET task == fb[t]
           model == task.models[task.idx]
           failed == [task EXCEPT !.failed = Append(@, model),
                                  !.last_error = Some(ErrorOf("Exception", model))]
           next == AdaptiveIteration([failed EXCEPT !.idx = @ + 1],
                                     task.original_model, cache_hit)
       IN  IF ok
           THEN /\ fb' = [fb EXCEPT ![t] =
                        [task EXCEPT !.pc = "returned",
                                     !.result = Some([model |-> model, cached |-> FALSE])]]
                /\ primary' = task.original_model
           ELSE IF task.idx = Len(task.models)
           THEN /\ fb' = [fb EXCEPT ![t] = [failed EXCEPT !.pc = "raised"]]
                /\ primary' = task.original_model
           ELSE /\ fb' = [fb EXCEPT ![t] = next.task]
                /\ primary' = next.primary

\* generate_quiz_with_fallback, lines 231-244, up to its first await
QuizStart(t, valid) ==
    /\ fb[t].pc = "idle"
    /\ LET task == [IdleTask EXCEPT !.kind = "quiz", !.models = QUIZ_MODELS, !.idx = 1]
       IN  fb' = [fb EXCEPT ![t] =
                    IF valid
                    THEN [task EXCEPT !.pc = "await", !.tried = <<task.models[1]>>]
                    ELSE Rejected(task)]
    /\ primary' = primary

\* generate_quiz_with_fallback, lines 244-253, from the return of the HTTP
\* call to the next await, the return or the raise
QuizResume(t, ok) ==
    /\ fb[t].pc = "await" /\ fb[t].kind = "quiz"
    /\ LET task == fb[t]
           model == task.models[task.idx]
           failed == [task EXCEPT !.failed = Append(@, model),
                                  !.last_error = Some(ErrorOf("Exception", model))]
       IN  fb' = [fb EXCEPT ![t] =
                    IF ok
                    THEN [task EXCEPT !.pc = "returned",
                                      !.result = Some([model |-> model, cached |-> FALSE])]
                    ELSE IF task.idx = Len(task.models)
                    THEN [failed EXCEPT !.pc = "raised"]
                    ELSE [failed EXCEPT !.idx = @ + 1,
                                        !.tried = Append(@, task.models[task.idx + 1])]]
    /\ primary' = primary

\* The caller has its result or its exception; the task ends.
FallbackDone(t) ==
    /\ fb[t].pc \in {"returned", "raised"}
    /\ fb' = [fb EXCEPT ![t] = IdleTask]
    /\ primary' = primary

InitFallback ==
    /\ primary = PRIMARY_MODEL
    /\ fb = [t \in Tasks |-> IdleTask]

----------------------------------------------------------------------------
(* utils/adaptive_quiz_utils.py: AdaptiveQuizHelper. What the database      *)
(* returns for the user is an input: an error, no rows, or rows with their  *)
(* average score, their attempts and the difficulty of the last quiz.       *)

NoLookup == [kind |-> "none", avg_score |-> 0, total_attempts |-> 0, last_difficulty |-> <<>>]

\* get_user_performance_data, lines 25-82; avg_score is in hundredths
get_user_performance_data(lookup) ==
    IF lookup.kind = "rows"
    THEN [has_history |-> TRUE,
          avg_score |-> lookup.avg_score,
          total_attempts |-> lookup.total_attempts,
          last_difficulty |-> lookup.last_difficulty]
    ELSE [has_history |-> FALSE,
          avg_score |-> 0,
          total_attempts |-> 0,
          last_difficulty |-> MEDIUM]

\* get_topic_performance, lines 128-158: the dict has no 'last_difficulty'
get_topic_performance(lookup) ==
    IF lookup.kind = "rows"
    THEN [has_history |-> TRUE,
          avg_score |-> lookup.avg_score,
          total_attempts |-> lookup.total_attempts]
    ELSE [has_history |-> FALSE,
          avg_score |-> 0,
          total_attempts |-> 0]

\* dict.get(key, default)
DictGet(dict, key, default) == IF key \in DOMAIN dict THEN dict[key] ELSE default

\* AdaptiveQuizAgent.get_difficulty_recommendation, lines 482-502: which
\* sentences the text is made of
get_difficulty_recommendation(avg_score, current_difficulty, recommended_difficulty, total_attempts) ==
    [reason |-> IF avg_score >= INCREASE_THRESHOLD * 100
                   /\ recommended_difficulty # current_difficulty
                THEN "mastery"
                ELSE IF avg_score < DECREASE_THRESHOLD * 100
                        /\ recommended_difficulty # current_difficulty
                THEN "practice"
                ELSE "optimal",
     level |-> recommended_difficulty,
     calibrating |-> total_attempts < 3]

\* get_adaptive_quiz_params, lines 183-230
get_adaptive_quiz_params(topic, user_preference, lookup) ==
    LET perf_data == IF topic # None /\ topic[1] # <<>>
                     THEN get_topic_performance(lookup)
                     ELSE get_user_performance_data(lookup)
        avg_score == DictGet(perf_data, "avg_score", 0)
        last_difficulty == DictGet(perf_data, "last_difficulty", MEDIUM)
        total_attempts == DictGet(perf_data, "total_attempts", 0)
        next_difficulty == determine_next_difficulty(Some(last_difficulty), Some(avg_score),
                                                     user_preference)
    IN  [difficulty |-> next_difficulty,
         num_questions |-> IF avg_score >= 90 * 100 THEN 7
                           ELSE IF avg_score >= 70 * 100 THEN 5
                           ELSE 4,
         recommendation |-> get_difficulty_recommendation(avg_score, last_difficulty,
                                                          next_difficulty, total_attempts),
         user_performance |-> [avg_score |-> avg_score,
                               total_attempts |-> total_attempts,
                               has_history |-> DictGet(perf_data, "has_history", FALSE)],
         user_preference |-> user_preference]

\* A call of get_adaptive_quiz_params on the arguments drawn at the start.
GetAdaptiveQuizParams ==
    /\ ap_lookup # NoLookup
    /\ ap_result = None
    /\ ap_result' = Some(get_adaptive_quiz_params(ap_topic, ap_preference, ap_lookup))
    /\ UNCHANGED <<ap_topic, ap_preference, ap_lookup>>

InitParamsIdle ==
    /\ ap_topic = None
    /\ ap_preference = None
    /\ ap_lookup = NoLookup
    /\ ap_result = None

InitKeyIdle ==
    /\ key_a = NoRequest
    /\ key_b = NoRequest

InitLoopIdle ==
    /\ fl_start = <<>>
    /\ fl_band = ""
    /\ fl_level = <<>>
    /\ fl_steps = 0
    /\ fl_score = None

InitCompareIdle ==
    /\ pv_correct = 0
    /\ pv_total = 1
    /\ pv_difficulty = <<>>
    /\ pv_result = None

InitExtraIdle ==
    InitKeyIdle /\ InitFallback /\ InitParamsIdle /\ InitLoopIdle /\ InitCompareIdle

Init == InitSessions /\ InitXPIdle /\ InitDNIdle /\ InitCache /\ InitExtraIdle

\* Idle threads hold no state and are interchangeable: a new call is taken by
\* the first idle one.
FirstIdle(t) == th[t].pc = "idle" /\ \A o \in Threads : o < t => th[o].pc # "idle"

\* User names are interchangeable: the first session is created by the first
\* user, every later one by any user.
FirstOwner(u) == nextId = 1 => u = "alice"

Next ==
    \/ \E t \in Threads, u \in Users, tp \in Topics, d \in SessionDifficulties,
          qs \in StoreQuestionLists :
            /\ FirstIdle(t)
            /\ nextId <= MaxSessions
            /\ FirstOwner(u)
            /\ CreateSession(t, u, tp, d, qs)
            /\ UNCHANGED <<xpVars, dnVars, cacheVars, extraVars>>
    \/ \E t \in Threads, sid \in SessionIds, u \in Users, a \in StoreAnswerLists :
            FirstIdle(t) /\ GradeLocked(t, sid, u, a) /\ UNCHANGED <<xpVars, dnVars, cacheVars, extraVars>>
    \/ \E t \in Threads : GradeCompute(t) /\ UNCHANGED <<xpVars, dnVars, cacheVars, extraVars>>
    \/ \E d \in TickSteps : ticks < MaxTicks /\ Tick(d) /\ UNCHANGED <<xpVars, dnVars, cacheVars, extraVars>>

Spec == Init /\ [][Next]_vars

----------------------------------------------------------------------------
(* Grading: one session is created in an empty store and graded by its      *)
(* owner, over every quiz and every answer list within the bounds.          *)

Grader == "alice"

NextGrade ==
    \/ \E t \in Threads, tp \in Topics, d \in SessionDifficulties,
          qs \in AllQuestionLists :
            /\ FirstIdle(t)
            /\ nextId = 1
            /\ CreateSession(t, Grader, tp, d, qs)
            /\ UNCHANGED <<xpVars, dnVars, cacheVars, extraVars>>
    \/ \E t \in Threads, sid \in SessionIds, a \in AllAnswerLists :
            FirstIdle(t) /\ GradeLocked(t, sid, Grader, a) /\ UNCHANGED <<xpVars, dnVars, cacheVars, extraVars>>
    \/ \E t \in Threads : GradeCompute(t) /\ UNCHANGED <<xpVars, dnVars, cacheVars, extraVars>>

SpecGrade == Init /\ [][NextGrade]_vars

----------------------------------------------------------------------------
(* calculate_xp on every score and difficulty within the bounds             *)

ScoreInputs == (0 - ScoreMargin)..(100 + ScoreMargin)

UpperChar(c) ==
    IF \E i \in 1..Len(LowerLetters) : LowerLetters[i] = c
    THEN UpperLetters[CHOOSE i \in 1..Len(LowerLetters) : LowerLetters[i] = c]
    ELSE c

\* Every spelling of a word in upper- and lower-case letters.
CaseVariants(word) ==
    {[i \in 1..Len(word) |-> IF i \in U THEN UpperChar(word[i]) ELSE word[i]] :
        U \in SUBSET (1..Len(word))}

\* Strings that are none of the four levels in any letter case.
UnknownDifficulties ==
    {<<"i", "n", "v", "a", "l", "i", "d">>, <<>>,
     <<"n", "o", "n", "s", "e", "n", "s", "e">>, <<"M", "E", "D">>,
     <<"e", "a", "s", "y", " ">>, <<"H", "A", "R", "D", "E", "R">>}

DifficultyInputs ==
    CaseVariants(EASY) \cup CaseVariants(MEDIUM) \cup CaseVariants(HARD)
        \cup CaseVariants(EXPERT) \cup UnknownDifficulties

InitXP ==
    /\ InitSessions
    /\ InitDNIdle
    /\ InitCache
    /\ InitExtraIdle
    /\ xp_score \in ScoreInputs
    /\ xp_difficulty \in DifficultyInputs
    /\ xp_result = None

NextXP == CalculateXP /\ UNCHANGED <<sessionVars, dnVars, cacheVars, extraVars>>

SpecXP == InitXP /\ [][NextXP]_vars

\* Both implementations on every quiz result within the bounds: the route
\* accepts total >= 1 and rejects correct > total.
InitCompare ==
    /\ InitSessions /\ InitXPIdle /\ InitDNIdle /\ InitCache
    /\ InitKeyIdle /\ InitFallback /\ InitParamsIdle /\ InitLoopIdle
    /\ pv_total \in 1..MaxTotal
    /\ pv_correct \in 0..pv_total
    /\ pv_difficulty \in DifficultyInputs
    /\ pv_result = None

NextCompare ==
    CompareXP
        /\ UNCHANGED <<sessionVars, xpVars, dnVars, cacheVars, keyVars, fbVars, apVars, loopVars>>

SpecCompare == InitCompare /\ [][NextCompare]_vars

----------------------------------------------------------------------------
(* determine_next_difficulty on every argument triple within the bounds     *)

\* Scores in hundredths: every whole score and the half above it.
AvgScoreInputs == {100 * k + d : k \in ScoreInputs, d \in {0, 50}}

CurrentInputs ==
    {None} \cup {Some(x) : x \in {EASY, MEDIUM, HARD, EXPERT,
                                   <<"M", "E", "D", "I", "U", "M">>,
                                   <<"E", "x", "p", "e", "r", "t">>,
                                   <<"I", "n", "v", "a", "l", "i", "d">>, <<>>}}

PreferenceInputs ==
    {None} \cup {Some(x) : x \in {EASY, MEDIUM, HARD, EXPERT,
                                   <<"H", "A", "R", "D">>,
                                   <<"i", "n", "v", "a", "l", "i", "d">>, <<>>}}

InitDN ==
    /\ InitSessions
    /\ InitXPIdle
    /\ InitCache
    /\ InitExtraIdle
    /\ dn_current \in CurrentInputs
    /\ dn_score \in {None} \cup {Some(x) : x \in AvgScoreInputs}
    /\ dn_preference \in PreferenceInputs
    /\ dn_result = None

NextDN == DetermineNext /\ UNCHANGED <<sessionVars, xpVars, cacheVars, extraVars>>

SpecDN == InitDN /\ [][NextDN]_vars

----------------------------------------------------------------------------
(* The cache under concurrent callers                                       *)

Responses == {"r1", "r2"}
\* The clock advances by the TTL and by the cleanup interval in turn, so that
\* ages of 0, of the interval, of the TTL and of more than the TTL all occur.
CacheTickSteps == <<CACHE_TTL, CLEANUP_INTERVAL>>
NextTickStep == CacheTickSteps[(ticks % Len(CacheTickSteps)) + 1]

\* Idle callers hold no state and are interchangeable: a new call is made by
\* the first idle one.
FirstIdleCaller(c) ==
    callers[c].pc = "idle" /\ \A o \in Callers : o < c => callers[o].pc # "idle"

\* Payloads are interchangeable: a key that is not stored is set to the first
\* payload, a stored key is overwritten with any payload.
FirstResponse(request, response) ==
    Find(cache, KeyOf(request)) = 0 => response = "r1"

\* get_stats and get_entry_info hold the lock for their whole body and write
\* nothing: they are called between the calls of the other callers.
Quiescent == \A c \in Callers : callers[c].pc = "idle"

\* What no operation of the cache touches.
nonCacheVars == <<sessions, nextId, th, last, graded, xpVars, dnVars, extraVars>>

NextCache ==
    \/ \E c \in Callers, r \in CacheRequests :
            /\ FirstIdleCaller(c)
            /\ SumHits(cache) < MaxHits
            /\ CacheGetBegin(c, r)
            /\ UNCHANGED nonCacheVars
    \/ \E c \in Callers : CacheSweep(c) /\ UNCHANGED nonCacheVars
    \/ \E c \in Callers : CacheLookup(c) /\ UNCHANGED nonCacheVars
    \/ \E c \in Callers, r \in CacheRequests, resp \in Responses :
            /\ FirstIdleCaller(c)
            /\ FirstResponse(r, resp)
            /\ CacheSet(c, r, resp)
            /\ UNCHANGED nonCacheVars
    \/ \E c \in Callers, r \in CacheRequests :
            FirstIdleCaller(c) /\ CacheInvalidate(c, r) /\ UNCHANGED nonCacheVars
    \/ \E c \in Callers : FirstIdleCaller(c) /\ CacheClear(c) /\ UNCHANGED nonCacheVars
    \/ \E c \in Callers :
            FirstIdleCaller(c) /\ Quiescent /\ CacheGetStats(c) /\ UNCHANGED nonCacheVars
    \/ \E c \in Callers, r \in CacheRequests :
            FirstIdleCaller(c) /\ Quiescent /\ CacheGetEntryInfo(c, r) /\ UNCHANGED nonCacheVars
    \/ ticks < MaxCacheTicks /\ CacheTick(NextTickStep) /\ UNCHANGED nonCacheVars

SpecCache == Init /\ [][NextCache]_vars

\* get and set under a clock that passes the cleanup interval, then the rest
\* of the TTL, then the interval again: an entry set at 0 and read at the TTL
\* is past its TTL at the last instant, one set at the interval is not.
EvictTickSteps == <<CLEANUP_INTERVAL, CACHE_TTL - CLEANUP_INTERVAL, CLEANUP_INTERVAL>>
NextEvictTick == EvictTickSteps[(ticks % Len(EvictTickSteps)) + 1]

NextEvict ==
    \/ \E c \in Callers, r \in CacheRequests :
            /\ FirstIdleCaller(c)
            /\ SumHits(cache) < MaxHits
            /\ CacheGetBegin(c, r)
            /\ UNCHANGED nonCacheVars
    \/ \E c \in Callers : CacheSweep(c) /\ UNCHANGED nonCacheVars
    \/ \E c \in Callers : CacheLookup(c) /\ UNCHANGED nonCacheVars
    \/ \E c \in Callers, r \in CacheRequests, resp \in Responses :
            /\ FirstIdleCaller(c)
            /\ FirstResponse(r, resp)
            /\ CacheSet(c, r, resp)
            /\ UNCHANGED nonCacheVars
    \/ ticks < MaxEvictTicks /\ CacheTick(NextEvictTick) /\ UNCHANGED nonCacheVars

SpecEvict == Init /\ [][NextEvict]_vars

----------------------------------------------------------------------------
(* The session store and the cache under one clock. The two share no state  *)
(* but the clock, so one of them is used while the other rests.             *)

SessionsAtRest ==
    /\ sessions = << >> /\ nextId = 1
    /\ th = [t \in Threads |-> IdleThread]
    /\ last = NoCall
    /\ graded = [sid \in SessionIds |-> 0]

NextSweep ==
    \/ InitCache /\ Next
    \/ SessionsAtRest /\ NextCache

SpecSweep == Init /\ [][NextSweep]_vars

----------------------------------------------------------------------------
(* generate_cache_key on every pair of requests within the bounds: the      *)
(* first request is set in an empty cache, the second is then looked up.    *)

InitKey ==
    /\ InitSessions /\ InitXPIdle /\ InitDNIdle /\ InitCache /\ InitFallback
    /\ InitParamsIdle /\ InitLoopIdle /\ InitCompareIdle
    /\ key_a \in KeyRequests
    /\ key_b \in KeyRequests

nonKeyVars ==
    <<sessions, nextId, th, last, graded, xpVars, dnVars, keyVars, fbVars, apVars, loopVars,
      pvVars>>

NextKey ==
    \/ /\ cache = <<>> /\ clast = NoCacheCall
       /\ CacheSet(1, key_a, "r1")
       /\ UNCHANGED nonKeyVars
    \/ /\ clast.op = "set"
       /\ CacheGetBegin(1, key_b)
       /\ UNCHANGED nonKeyVars
    \/ CacheLookup(1) /\ UNCHANGED nonKeyVars

SpecKey == InitKey /\ [][NextKey]_vars

----------------------------------------------------------------------------
(* get_adaptive_quiz_params on every input within the bounds                *)

TopicInputs == {None, Some(<<>>), Some(<<"p", "y">>)}

LookupInputs ==
    {[kind |-> k, avg_score |-> 0, total_attempts |-> 0, last_difficulty |-> <<>>] :
        k \in {"error", "empty"}}
    \cup {[kind |-> "rows", avg_score |-> a, total_attempts |-> n, last_difficulty |-> d] :
            a \in AvgScoreInputs, n \in {1, 3}, d \in {EASY, MEDIUM, HARD, EXPERT}}

InitParams ==
    /\ InitSessions /\ InitXPIdle /\ InitDNIdle /\ InitCache
    /\ InitKeyIdle /\ InitFallback /\ InitLoopIdle /\ InitCompareIdle
    /\ ap_topic \in TopicInputs
    /\ ap_preference \in PreferenceInputs
    /\ ap_lookup \in LookupInputs
    /\ ap_result = None

NextParams ==
    GetAdaptiveQuizParams
        /\ UNCHANGED <<sessionVars, xpVars, dnVars, cacheVars, keyVars, fbVars, loopVars,
                       pvVars>>

SpecParams == InitParams /\ [][NextParams]_vars

----------------------------------------------------------------------------
(* determine_next_difficulty applied to its own result, without preference, *)
(* on scores that all lie in one band                                       *)

MaxApplications == 4

Bands == {"high", "low", "middle"}

BandScores(band) ==
    {score \in AvgScoreInputs :
        IF band = "high" THEN score >= INCREASE_THRESHOLD * 100
        ELSE IF band = "low" THEN score < DECREASE_THRESHOLD * 100
        ELSE score >= DECREASE_THRESHOLD * 100 /\ score < INCREASE_THRESHOLD * 100}

LoopStarts ==
    {EASY, MEDIUM, HARD, EXPERT, <<"M", "E", "D", "I", "U", "M">>,
     <<"E", "x", "p", "e", "r", "t">>}

InitLoop ==
    /\ InitSessions /\ InitXPIdle /\ InitDNIdle /\ InitCache
    /\ InitKeyIdle /\ InitFallback /\ InitParamsIdle /\ InitCompareIdle
    /\ fl_start \in LoopStarts
    /\ fl_band \in Bands
    /\ fl_level = fl_start
    /\ fl_steps = 0
    /\ fl_score = None

\* The next quiz: the result becomes the current difficulty.
FeedBack(avg_score) ==
    /\ fl_steps < MaxApplications
    /\ fl_level' = determine_next_difficulty(Some(fl_level), Some(avg_score), None)
    /\ fl_steps' = fl_steps + 1
    /\ fl_score' = Some(avg_score)
    /\ UNCHANGED <<fl_start, fl_band>>

NextLoop ==
    \E avg_score \in BandScores(fl_band) :
        /\ FeedBack(avg_score)
        /\ UNCHANGED <<sessionVars, xpVars, dnVars, cacheVars, keyVars, fbVars, apVars,
                       pvVars>>

SpecLoop == InitLoop /\ [][NextLoop]_vars

----------------------------------------------------------------------------
(* The fallback functions under concurrent tasks                            *)

\* Idle tasks are interchangeable: a new call is made by the first idle one.
FirstIdleTask(t) ==
    fb[t].pc = "idle" /\ \A o \in Tasks : o < t => fb[o].pc # "idle"

nonFallbackVars ==
    <<sessions, nextId, now, ticks, th, last, graded, xpVars, dnVars, cacheVars, keyVars,
      apVars, loopVars, pvVars>>

NextFallback ==
    \/ \E t \in Tasks, valid \in BOOLEAN, cache_hit \in BOOLEAN :
            /\ FirstIdleTask(t)
            /\ ~valid => ~cache_hit
            /\ AdaptiveStart(t, valid, cache_hit)
            /\ UNCHANGED nonFallbackVars
    \/ \E t \in Tasks, ok \in BOOLEAN, cache_hit \in BOOLEAN :
            /\ ok => ~cache_hit
            /\ AdaptiveResume(t, ok, cache_hit)
            /\ UNCHANGED nonFallbackVars
    \/ \E t \in Tasks, valid \in BOOLEAN :
            FirstIdleTask(t) /\ QuizStart(t, valid) /\ UNCHANGED nonFallbackVars
    \/ \E t \in Tasks, ok \in BOOLEAN : QuizResume(t, ok) /\ UNCHANGED nonFallbackVars
    \/ \E t \in Tasks : FallbackDone(t) /\ UNCHANGED nonFallbackVars

SpecFallback == Init /\ [][NextFallback]_vars

----------------------------------------------------------------------------
(* Properties of the session store                                          *)

\* The step is the locked part of the grade_session call (sid, u) of thread
\* t. A new call is taken by the first idle thread and leaves nextId, now and
\* graded alone; its arguments show in last when it raises (th is unchanged)
\* and in the thread's locals when it does not.
IsGradeStep(t, sid, u) ==
    /\ nextId' = nextId /\ now' = now /\ graded' = graded
    /\ FirstIdle(t)
    /\ \E a \in StoreAnswerLists : GradeLocked(t, sid, u, a)

\* P(t, sid, u) holds of the grade_session call made in this step, if any.
ForGradeStep(P(_, _, _)) ==
    \A t \in Threads :
        (nextId' = nextId /\ now' = now /\ graded' = graded /\ FirstIdle(t)) =>
            LET sid == IF th' = th THEN last'.session_id ELSE th'[t].session_id
                u == IF th' = th THEN last'.user_id ELSE th'[t].user_id
            IN  (sid \in SessionIds /\ u \in Users /\ IsGradeStep(t, sid, u))
                    => P(t, sid, u)

\* The call of this step has left the lock by raising.
Raised == th' = th

\* Session sid is stored and its age at the clock's time is within the TTL.
StoredUnexpired(sid) ==
    /\ sid \in DOMAIN sessions
    /\ now - sessions[sid].created_at <= 3600

\* Calls on session sid that are past the lock and have not returned yet.
InFlight(sid) ==
    Cardinality({t \in Threads : th[t].pc = "grading" /\ th[t].session_id = sid})

\* Calls on session sid that have returned, or will return, a grade result.
Winners(sid) == graded[sid] + InFlight(sid)

C1_AtMostOneWinner ==
    \A sid \in SessionIds :
        /\ Winners(sid) <= 1
        /\ sid \in DOMAIN sessions => (sessions[sid].completed <=> Winners(sid) = 1)

C1_OwnerCall(t, sid, u) ==
    (StoredUnexpired(sid) /\ sessions[sid].user_id = u)
    => IF sessions[sid].completed
       THEN /\ Raised
            /\ last'.error.msg = "Quiz session already submitted"
            /\ last'.result = None
       ELSE /\ th'[t].pc = "grading" /\ th'[t].session_id = sid
            /\ sessions'[sid].completed

C1_ResultReturned ==
    \A t \in Threads :
        (graded' # graded /\ th[t].pc = "grading" /\ GradeCompute(t))
        => /\ last'.result # None
           /\ last'.session_id = th[t].session_id
           /\ last'.error = NoError

\* C1: among the owner's grade_session calls on a stored, unexpired session,
\* in any interleaving, the first call to take the lock is the only one that
\* returns a grade result and every other one fails with the already-graded
\* error; no session ever yields two grade results.
C1_ExactlyOneGrade ==
    /\ []C1_AtMostOneWinner
    /\ [][ForGradeStep(C1_OwnerCall) /\ C1_ResultReturned]_vars

\* C1: one call has returned the grade of a session and a second call by the
\* owner has failed with the already-graded error.
C1_Witness ==
    /\ last.op = "grade"
    /\ last.error = AlreadyGradedError
    /\ graded[last.session_id] = 1

\* C2: completed is false in a session just created and only ever goes from
\* false to true; a session id is never stored again once it was handed out.
C2_CompletedMonotone ==
    [][ /\ \A sid \in DOMAIN sessions \cap DOMAIN sessions' :
               sessions[sid].completed => sessions'[sid].completed
        /\ \A sid \in DOMAIN sessions' \ DOMAIN sessions :
               sid = nextId /\ ~sessions'[sid].completed ]_vars

\* C2: a session has been graded and is stored as completed.
C2_Witness ==
    \E sid \in DOMAIN sessions : sessions[sid].completed /\ graded[sid] = 1

C3_NonOwnerCall(t, sid, u) ==
    (StoredUnexpired(sid) /\ sessions[sid].user_id # u)
    => /\ Raised
       /\ last'.error.exc = "PermissionError"
       /\ last'.result = None
       /\ sid \in DOMAIN sessions'
       /\ sessions'[sid] = sessions[sid]

\* C3: grade_session by a user who is not the owner of a stored, unexpired
\* session raises the permission error and leaves the session, its completed
\* flag included, as it was.
C3_ForbiddenKeepsPending == [][ForGradeStep(C3_NonOwnerCall)]_vars

\* C3: a non-owner's call has just failed on a session that is still pending.
C3_Witness ==
    /\ last.op = "grade"
    /\ last.error.exc = "PermissionError"
    /\ last.session_id \in DOMAIN sessions
    /\ last.user_id # sessions[last.session_id].user_id
    /\ ~sessions[last.session_id].completed

\* The call fails with the permission or the already-graded error.
ForbiddenOrAlreadyGraded ==
    /\ Raised
    /\ last'.error.msg \in {"Not authorized to grade this session",
                            "Quiz session already submitted"}

C4_NothingChanged(t, sid, u) ==
    ForbiddenOrAlreadyGraded => sessions' = sessions

C4_OnlySwept(t, sid, u) ==
    ForbiddenOrAlreadyGraded =>
        /\ DOMAIN sessions' =
             {s \in DOMAIN sessions : now - sessions[s].created_at <= 3600}
        /\ \A s \in DOMAIN sessions' : sessions'[s] = sessions[s]

\* C4 as stated: a grade_session call that fails with Forbidden or
\* AlreadyGraded leaves the set of stored sessions and all their fields
\* unchanged.
C4_FailureChangesNothing == [][ForGradeStep(C4_NothingChanged)]_vars

\* C4 as amended: such a call removes exactly the sessions whose age exceeds
\* the TTL and leaves every other stored session unchanged in every field.
C4_FailureOnlySweeps == [][ForGradeStep(C4_OnlySwept)]_vars

\* C4: a call has failed with the permission error while an older session
\* has been swept from the store.
C4_Witness ==
    /\ last.op = "grade"
    /\ last.error = ForbiddenError
    /\ \E sid \in 1..(nextId - 1) : sid \notin DOMAIN sessions

C5_ExpiredCall(t, sid, u) ==
    ~StoredUnexpired(sid)
    => /\ Raised
       /\ last' = [op |-> "grade", session_id |-> sid, user_id |-> u,
                   error |-> NotFoundError, result |-> None]
       /\ sid \notin DOMAIN sessions'

\* C5: grade_session on an id whose session is older than the TTL does what it
\* does on an id that is not stored: it raises the not-found error, returns no
\* grade and starts no grading, whoever calls and whatever the answers and the
\* completed flag are; the expired session is gone afterwards.
C5_ExpiredIsNotFound == [][ForGradeStep(C5_ExpiredCall)]_vars

\* C5: a call on a session that was created, and has expired, has failed with
\* the not-found error.
C5_Witness ==
    /\ last.op = "grade"
    /\ last.error = NotFoundError
    /\ last.session_id \in 1..(nextId - 1)

\* C6 as stated: an empty question list is rejected, so every stored session
\* has at least one question.
C6_NoEmptySession ==
    \A sid \in DOMAIN sessions : Len(sessions[sid].questions) >= 1

\* The graded questions of a result r in which the submitted answer is there
\* and is the stored answer.
CorrectPositions(r) ==
    {i \in 1..Len(r.questions) :
        r.questions[i].user_answer = <<r.questions[i].answer>>}

\* C7 as stated: a grade result has total = number of questions, correct =
\* number of positions with a submitted answer equal to the stored one, and
\* correct = total with score 100.0 when every position is answered correctly.
C7_GradeResult ==
    (last.op = "grade" /\ last.result # None) =>
        LET r == last.result[1]
        IN  /\ r.total = Len(r.questions)
            /\ r.correct = Cardinality(CorrectPositions(r))
            /\ (CorrectPositions(r) = 1..r.total)
                 => (r.correct = r.total /\ r.score = 10000)

\* Two grade_session calls finish one after the other, each by raising.
TwoFailures ==
    /\ last.op = "grade" /\ last.error # NoError
    /\ last'.op = "grade" /\ last'.error # NoError
    /\ last' # last

\* C8 as stated: NotFound, Forbidden and AlreadyGraded are reported as three
\* different error kinds (exception classes).
C8_KindsAllDistinct ==
    [][ (TwoFailures /\ last'.error.msg # last.error.msg)
          => last'.error.exc # last.error.exc ]_vars

C8_FailedCall(t, sid, u) ==
    Raised =>
        LET notOwner == StoredUnexpired(sid) /\ sessions[sid].user_id # u
        IN  /\ notOwner <=> last'.error.exc = "PermissionError"
            /\ ~notOwner => last'.error.exc = "ValueError"
            /\ (~StoredUnexpired(sid)) <=>
                  last'.error.msg = "Quiz session not found or expired"

\* C8 as amended: Forbidden is reported as a kind of its own; NotFound and
\* AlreadyGraded are reported as the same kind and differ in their message.
C8_ForbiddenDistinct == [][ForGradeStep(C8_FailedCall)]_vars

\* C8: an already-graded failure has followed the grading of a session.
C8_Witness ==
    /\ last.op = "grade"
    /\ last.error.exc = "ValueError"
    /\ last.error.msg = "Quiz session already submitted"

C9_FoundWhileYoung(t, sid, u) ==
    (sid \in DOMAIN sessions /\ now - sessions[sid].created_at <= 3600)
        <=> ~(Raised /\ last'.error = NotFoundError)

\* C9: created_at of a stored session never changes, a session is removed
\* only when its age exceeds 3600 seconds and is never stored again, and a
\* grade_session call finds a session only while its age is at most 3600.
C9_LifetimeFixed ==
    [][ /\ \A sid \in DOMAIN sessions :
               IF sid \in DOMAIN sessions'
               THEN sessions'[sid].created_at = sessions[sid].created_at
               ELSE now - sessions[sid].created_at > 3600
        /\ \A sid \in DOMAIN sessions' : sid \in DOMAIN sessions \/ sid = nextId
        /\ ForGradeStep(C9_FoundWhileYoung) ]_vars

\* C9: a session has been graded and is still stored at the last second of
\* its lifetime.
C9_Witness ==
    \E sid \in DOMAIN sessions :
        /\ sessions[sid].completed
        /\ now - sessions[sid].created_at = 3600
        /\ last.op = "grade" /\ last.session_id = sid

----------------------------------------------------------------------------
(* Properties of calculate_xp                                               *)

\* C10: for every score and each of the four levels calculate_xp returns
\* 100 + (easy 10, medium 20, hard 30, expert 50) + (50 for a score of 100 or
\* more, 30 for 90..99, 15 for 80..89, 0 below 80).
C10_XPTable ==
    (xp_result # None /\ xp_difficulty \in {EASY, MEDIUM, HARD, EXPERT}) =>
        LET diff == CASE xp_difficulty = EASY -> 10
                      [] xp_difficulty = MEDIUM -> 20
                      [] xp_difficulty = HARD -> 30
                      [] xp_difficulty = EXPERT -> 50
            tier == CASE xp_score >= 100 -> 50
                      [] xp_score >= 90 /\ xp_score <= 99 -> 30
                      [] xp_score >= 80 /\ xp_score <= 89 -> 15
                      [] xp_score < 80 -> 0
        IN  /\ xp_result = <<100 + diff + tier>>
            /\ (xp_score = 100 /\ xp_difficulty = HARD) => xp_result = <<180>>
            /\ (xp_score = 85 /\ xp_difficulty = MEDIUM) => xp_result = <<135>>
            /\ (xp_score = 75 /\ xp_difficulty = EASY) => xp_result = <<110>>
            /\ (xp_score = 0 /\ xp_difficulty = HARD) => xp_result = <<130>>

\* C10: calculate_xp has returned for a score above 100 on hard.
C10_Witness ==
    /\ xp_score > 100
    /\ xp_difficulty = HARD
    /\ xp_result = <<180>>

\* The four levels, lowest first.
Ladder == <<EASY, MEDIUM, HARD, EXPERT>>
KnownLevels == {Ladder[i] : i \in 1..Len(Ladder)}

\* C11: calculate_xp returns for every difficulty string; a string that is
\* none of the four levels after lower-casing yields the XP of medium for the
\* same score, and a level written in any letter case yields the XP of its
\* lower-case form.
C11_UnknownIsMedium ==
    xp_result # None =>
        LET tier == IF xp_score >= 100 THEN 50
                    ELSE IF xp_score >= 90 THEN 30
                    ELSE IF xp_score >= 80 THEN 15 ELSE 0
        IN  /\ Lower(xp_difficulty) \notin KnownLevels =>
                  /\ xp_result = <<120 + tier>>
                  /\ xp_result = <<calculate_xp(xp_score, MEDIUM)>>
            /\ Lower(xp_difficulty) \in KnownLevels =>
                  xp_result = <<calculate_xp(xp_score, Lower(xp_difficulty))>>

\* C11: calculate_xp has returned, for a perfect score and an unrecognized
\* difficulty string, the XP of medium.
C11_Witness ==
    /\ xp_score = 100
    /\ xp_difficulty = <<"n", "o", "n", "s", "e", "n", "s", "e">>
    /\ xp_result = <<170>>

\* C12: for a fixed difficulty a higher score never yields less XP, for a
\* fixed score the next level up the ladder yields strictly more XP, and every
\* result lies in 110..200.
C12_Monotone ==
    xp_result # None =>
        /\ xp_result[1] \in 110..200
        /\ \A higher \in ScoreInputs :
               higher >= xp_score => calculate_xp(higher, xp_difficulty) >= xp_result[1]
        /\ \A i \in 1..(Len(Ladder) - 1) :
               Lower(xp_difficulty) = Ladder[i] =>
                   \A j \in (i + 1)..Len(Ladder) :
                       calculate_xp(xp_score, Ladder[j]) > xp_result[1]

\* C12: calculate_xp has returned the lowest XP of the hard level, just
\* below the first score tier.
C12_Witness ==
    /\ xp_score = 79
    /\ xp_difficulty = HARD
    /\ xp_result = <<130>>

----------------------------------------------------------------------------
(* Properties of determine_next_difficulty                                  *)

\* The preference is one of the four levels, in any letter case.
ValidPreference == dn_preference # None /\ Lower(dn_preference[1]) \in KnownLevels

\* The current difficulty is one of the four levels, in any letter case.
KnownCurrent == dn_current # None /\ Lower(dn_current[1]) \in KnownLevels

\* Position of a level on the ladder, 1 for easy.
Rung(level) == CHOOSE i \in 1..Len(Ladder) : Ladder[i] = level

\* The level one rung up or down, or the same, as the score in hundredths
\* demands.
StepFrom(rung, score) ==
    IF score >= 8000 THEN Ladder[IF rung = 4 THEN 4 ELSE rung + 1]
    ELSE IF score < 5000 THEN Ladder[IF rung = 1 THEN 1 ELSE rung - 1]
    ELSE Ladder[rung]

\* C13: a preference that is one of the four levels is returned whatever the
\* current difficulty and the average score are, absent or not; any other
\* preference is ignored, the result being that of the call without it.
C13_PreferenceWins ==
    dn_result # None =>
        IF ValidPreference
        THEN dn_result = <<Lower(dn_preference[1])>>
        ELSE dn_result = <<determine_next_difficulty(dn_current, dn_score, None)>>

\* C13: the preference easy has been returned although the current level is
\* hard and the score would raise it.
C13_Witness ==
    /\ dn_preference = <<EASY>>
    /\ dn_current = <<HARD>>
    /\ dn_score = <<9000>>
    /\ dn_result = <<EASY>>

\* C14: with no valid preference the result is medium whenever the current
\* difficulty or the average score is absent, whatever the other one is.
C14_NoHistoryIsMedium ==
    (dn_result # None /\ ~ValidPreference /\ (dn_current = None \/ dn_score = None))
        => dn_result = <<MEDIUM>>

\* C14: an absent current difficulty with a score of 90 has given medium.
C14_Witness ==
    /\ dn_preference = None
    /\ dn_current = None
    /\ dn_score = <<9000>>
    /\ dn_result = <<MEDIUM>>

C16_AlwaysALevel ==
    dn_result # None =>
        /\ dn_result[1] \in KnownLevels
        /\ (dn_preference = None /\ dn_current # None /\ ~KnownCurrent /\ dn_score # None)
              => dn_result = <<StepFrom(2, dn_score[1])>>

----------------------------------------------------------------------------
(* Properties of the cache                                                  *)

\* The step is the locked part of a get by caller c.
IsLookupStep(c) == callers[c].pc = "lookup" /\ callers'[c].pc = "idle"

\* The step is a call of set(request, response).
IsSetStep(request, response) ==
    /\ clast'.op = "set"
    /\ callers' = callers /\ now' = now
    /\ \E c \in Callers : FirstIdleCaller(c) /\ CacheSet(c, request, response)

\* The entry stored under key; the key is stored.
EntryOf(store, key) == store[Find(store, key)]

Keys(store) == {store[i].key : i \in 1..Len(store)}

\* Every entry of the store but the one under key is in both stores the same.
OthersUnchanged(key) ==
    /\ Keys(cache') \ {key} = Keys(cache) \ {key}
    /\ \A k \in Keys(cache) \ {key} : EntryOf(cache', k) = EntryOf(cache, k)

C17_SetStores ==
    \A request \in CacheRequests, response \in Responses :
        IsSetStep(request, response) =>
            LET e == EntryOf(cache', KeyOf(request))
            IN  /\ KeyOf(request) \in Keys(cache')
                /\ e.response = response /\ e.hits = 0
                /\ e.timestamp = now /\ e.last_accessed = now

C17_PayloadKept ==
    \A k \in Keys(cache) \cap Keys(cache') :
        EntryOf(cache', k).response # EntryOf(cache, k).response =>
            /\ clast'.op = "set" /\ clast'.branch = "replace"
            /\ EntryOf(cache', k).timestamp = now
            /\ EntryOf(cache', k).hits = 0

C17_HitReturns ==
    \A c \in Callers :
        IsLookupStep(c) =>
            LET key == KeyOf(callers[c].request)
            IN  (key \in Keys(cache) /\ now - EntryOf(cache, key).timestamp <= 3600) =>
                    /\ clast' = [op |-> "get", branch |-> "hit",
                                 result |-> Some(EntryOf(cache, key).response)]
                    /\ key \in Keys(cache')
                    /\ EntryOf(cache', key) =
                         [EntryOf(cache, key) EXCEPT !.hits = @ + 1, !.last_accessed = now]
                    /\ OthersUnchanged(key)

\* C17: set stores the payload under the key of its request, no step but a
\* set of that key changes the payload of a stored entry, and a get with the
\* same request while the entry is stored and its age is within the TTL
\* returns that payload, adds one to the entry's hit count and sets its
\* last_accessed to the time of the get.
C17_SetThenGet == [][C17_SetStores /\ C17_PayloadKept /\ C17_HitReturns]_vars

\* C17: a get has returned the payload that overwrote the first one, from an
\* entry whose age is exactly the TTL.
C17_Witness ==
    /\ clast.op = "get"
    /\ clast.result = Some("r2")
    /\ \E i \in 1..Len(cache) :
          /\ cache[i].response = "r2"
          /\ cache[i].hits = 1
          /\ cache[i].last_accessed = now
          /\ now - cache[i].timestamp = 3600

C18_Lookup ==
    \A c \in Callers :
        IsLookupStep(c) =>
            LET key == KeyOf(callers[c].request)
            IN  /\ (key \in Keys(cache) /\ now - EntryOf(cache, key).timestamp > 3600) =>
                      /\ clast'.op = "get" /\ clast'.result = None
                      /\ key \notin Keys(cache')
                      /\ OthersUnchanged(key)
                /\ clast'.result # None =>
                      /\ key \in Keys(cache)
                      /\ now - EntryOf(cache, key).timestamp <= 3600

\* C18: a get for a key whose entry is older than the TTL returns absent and
\* removes the entry; a get returns a payload only from a stored entry whose
\* age since its last set is within the TTL.
C18_ExpiredIsAbsent == [][C18_Lookup]_vars

\* C18: a get has found its entry expired and removed it while another
\* expired entry is still stored.
C18_Witness ==
    /\ clast.op = "get"
    /\ clast.branch = "expired"
    /\ \E i \in 1..Len(cache) : now - cache[i].timestamp > 3600

C19_Set ==
    \A request \in CacheRequests, response \in Responses :
        IsSetStep(request, response) =>
            LET key == KeyOf(request)
            IN  IF key \in Keys(cache)
                THEN OthersUnchanged(key)
                ELSE IF Len(cache) < CacheMaxSize
                THEN OthersUnchanged(key)
                ELSE \E victim \in Keys(cache) :
                        /\ \A k \in Keys(cache) :
                              EntryOf(cache, k).last_accessed
                                  >= EntryOf(cache, victim).last_accessed
                        /\ Keys(cache') = (Keys(cache) \ {victim}) \cup {key}
                        /\ Len(cache') = Len(cache)
                        /\ \A k \in Keys(cache) \ {victim} :
                              EntryOf(cache', k) = EntryOf(cache, k)

\* C19: set of a key that is not stored, into a store of max_size entries,
\* removes exactly one entry, one whose last_accessed is the oldest of all,
\* and inserts the key; set of a stored key, or into a store with room,
\* removes nothing.
C19_EvictsOldestAccess == [][C19_Set]_vars

\* C19: a set has evicted an entry, and the entry that was inserted first is
\* still stored because it was read since.
C19_Witness ==
    /\ clast.op = "set"
    /\ clast.branch = "evict"
    /\ Len(cache) = CacheMaxSize
    /\ cache[1].hits > 0
    /\ cache[1].timestamp < cache[Len(cache)].timestamp

\* C20: in every reachable state of the cache under concurrent get, set,
\* invalidate, clear and sweep the number of stored entries is at most
\* max_size, and no key is stored twice.
C20_SizeBounded ==
    /\ Len(cache) <= CacheMaxSize
    /\ Cardinality(Keys(cache)) = Len(cache)

\* C20: the store is full right after a set while another caller's get is
\* about to sweep.
C20_Witness ==
    /\ Len(cache) = CacheMaxSize
    /\ clast.op = "set"
    /\ \E c \in Callers : callers[c].pc = "sweep"

\* The step is a call of invalidate(request).
IsInvalidateStep(request) ==
    /\ clast'.op = "invalidate"
    /\ callers' = callers /\ now' = now
    /\ \E c \in Callers : FirstIdleCaller(c) /\ CacheInvalidate(c, request)

\* C24: invalidate returns true exactly when an entry is stored under the
\* key of the request; it removes that entry and no other; a call that finds
\* no entry returns false and changes nothing; and a key that is not stored
\* is stored again only by a set, so that a get hits it only after one.
C24_InvalidateStep ==
    \A request \in CacheRequests :
        IsInvalidateStep(request) =>
            LET key == KeyOf(request)
            IN  /\ clast'.result = Some(key \in Keys(cache))
                /\ key \notin Keys(cache')
                /\ OthersUnchanged(key)
                /\ key \notin Keys(cache) => cache' = cache /\ last_cleanup' = last_cleanup

C24_AbsentUntilSet ==
    /\ Keys(cache') \ Keys(cache) # {} =>
            clast'.op = "set" /\ clast'.branch \in {"insert", "evict"}
    /\ \A c \in Callers :
            (IsLookupStep(c) /\ clast'.branch = "hit") =>
                KeyOf(callers[c].request) \in Keys(cache)

C24_Invalidate == [][C24_InvalidateStep /\ C24_AbsentUntilSet]_vars

C24_Witness ==
    /\ clast.op = "invalidate"
    /\ clast.result = Some(TRUE)
    /\ Len(cache) = 1

\* C25: the sweep of expired entries runs only inside a get, and two sweeps
\* are never executed less than one cleanup interval apart, also when several
\* get calls run concurrently.
C25_SweepStep ==
    \A c \in Callers :
        (callers[c].pc = "sweep" /\ callers'[c].pc = "lookup") =>
            /\ callers[c].request \in CacheRequests
            /\ now - last_cleanup >= CLEANUP_INTERVAL

C25_SweepThrottled == [][C25_SweepStep]_vars

\* The entry under key is stored and older than the TTL.
StoredExpired(key) ==
    key \in Keys(cache) /\ now - EntryOf(cache, key).timestamp > CACHE_TTL

\* C26: an entry older than the TTL is absent for every operation, removed or
\* not: get returns nothing, invalidate returns false, get_stats does not
\* count it and get_entry_info does not report it.
C26_Step ==
    /\ \A c \in Callers :
            (IsLookupStep(c) /\ StoredExpired(KeyOf(callers[c].request))) =>
                clast'.result = None
    /\ \A request \in CacheRequests :
            (IsInvalidateStep(request) /\ StoredExpired(KeyOf(request))) =>
                clast'.result = Some(FALSE)
    /\ clast'.op = "get_stats" =>
            clast'.result[1].total_entries =
                Cardinality({k \in Keys(cache) : ~StoredExpired(k)})
    /\ (clast'.op = "get_entry_info" /\ clast'.result # None) =>
            ~StoredExpired(clast'.result[1].cache_key)

C26_ExpiredAbsentEverywhere == [][C26_Step]_vars

\* C27: every get that hits adds one to the hit count of its entry and to
\* no other; a get that misses changes no hit count; no other operation
\* changes the hit count of an entry that stays stored, but a set that
\* overwrites it; and get_stats reports the number of stored entries and the
\* sum of their hit counts.
C27_LookupStep ==
    \A c \in Callers :
        IsLookupStep(c) =>
            LET key == KeyOf(callers[c].request)
            IN  IF clast'.branch = "hit"
                THEN /\ Keys(cache') = Keys(cache)
                     /\ EntryOf(cache', key).hits = EntryOf(cache, key).hits + 1
                     /\ \A k \in Keys(cache) \ {key} :
                            EntryOf(cache', k).hits = EntryOf(cache, k).hits
                     /\ SumHits(cache') = SumHits(cache) + 1
                ELSE \A k \in Keys(cache') :
                        EntryOf(cache', k).hits = EntryOf(cache, k).hits

C27_OtherStep ==
    (\A c \in Callers : ~IsLookupStep(c)) =>
        \A k \in Keys(cache) \cap Keys(cache') :
            EntryOf(cache', k).hits # EntryOf(cache, k).hits =>
                /\ clast'.op = "set" /\ clast'.branch = "replace"
                /\ EntryOf(cache', k).hits = 0

C27_StatsStep ==
    clast'.op = "get_stats" =>
        /\ clast'.result[1].total_entries = Len(cache)
        /\ clast'.result[1].total_hits = SumHits(cache)
        /\ cache' = cache

C27_HitsCounted == [][C27_LookupStep /\ C27_OtherStep /\ C27_StatsStep]_vars

C27_Witness ==
    /\ clast.op = "get_stats"
    /\ clast.result[1].total_hits = 2
    /\ \E i \in 1..Len(cache) : cache[i].hits = 2

----------------------------------------------------------------------------
(* Claims about generate_cache_key, checked under SpecKey.                  *)

\* The name/value pairs of a call, whatever their order.
Pairs(kwargs) == {kwargs[i] : i \in 1..Len(kwargs)}

\* The get of key_b after the set of key_a has returned.
KeyLookupDone == key_a \in KeyRequests /\ clast.op = "get"

\* C21: for the same prompt, the same model and the same set of name/value
\* parameters, every order of the parameters gives the same key, and a set
\* with one order is hit by a get with another.
C21_OrderIndependent ==
    (/\ key_a \in KeyRequests
     /\ key_a.prompt = key_b.prompt /\ key_a.model = key_b.model
     /\ Pairs(key_a.kwargs) = Pairs(key_b.kwargs))
    => /\ KeyOf(key_a) = KeyOf(key_b)
       /\ KeyLookupDone => clast.branch = "hit" /\ clast.result = Some("r1")

C21_Witness ==
    /\ KeyLookupDone
    /\ key_a.prompt = key_b.prompt /\ key_a.model = key_b.model
    /\ Pairs(key_a.kwargs) = Pairs(key_b.kwargs)
    /\ key_a.kwargs # key_b.kwargs
    /\ clast.branch = "hit"

\* C22: prompts that differ only in their whitespace (at either end, or in
\* the length or kind of the runs between the words) give the same key for
\* the same model and parameters; prompts that differ in the case of a
\* letter give different keys.
C22_WhitespaceNotCase ==
    (/\ key_a \in KeyRequests
     /\ key_a.model = key_b.model /\ key_a.kwargs = key_b.kwargs)
    => /\ SplitWords(key_a.prompt) = SplitWords(key_b.prompt)
          => /\ KeyOf(key_a) = KeyOf(key_b)
             /\ KeyLookupDone => clast.branch = "hit"
       /\ (/\ key_a.prompt # key_b.prompt
           /\ Lower(key_a.prompt) = Lower(key_b.prompt))
          => /\ KeyOf(key_a) # KeyOf(key_b)
             /\ KeyLookupDone => clast.branch = "miss"

C22_Witness ==
    /\ KeyLookupDone
    /\ key_a.model = key_b.model /\ key_a.kwargs = key_b.kwargs
    /\ key_a.prompt = <<" ", "a", " ", " ", "b">>
    /\ key_b.prompt = <<"a", "\t", "b">>
    /\ clast.branch = "hit"

\* C23: two requests that differ in their model, in their prompt after the
\* whitespace is normalized, or in their set of name/value parameters have
\* different keys and never share an entry, also when a prompt, a model or a
\* value holds a '|' or a ':'.
C23_DistinctKeys ==
    (/\ key_a \in KeyRequests
     /\ \/ key_a.model # key_b.model
        \/ SplitWords(key_a.prompt) # SplitWords(key_b.prompt)
        \/ Pairs(key_a.kwargs) # Pairs(key_b.kwargs))
    => /\ KeyOf(key_a) # KeyOf(key_b)
       /\ KeyLookupDone => clast.branch = "miss"

----------------------------------------------------------------------------
(* Claims about the model fallback, checked under SpecFallback.             *)

\* The ordered provider list of each function.
ProviderList(kind) ==
    IF kind = "adaptive" THEN <<PRIMARY_MODEL>> \o FALLBACK_MODELS ELSE QUIZ_MODELS

IsPrefix(a, b) == Len(a) <= Len(b) /\ a = SubSeq(b, 1, Len(a))

\* C28: a call tries the providers in the order of the list, one at a time;
\* it returns the result of the first one that succeeds and tries none after
\* it; it raises only when every provider of the list has failed, with the
\* error of the last one.
C28_InListOrder ==
    \A t \in Tasks :
        LET task == fb[t]
            list == ProviderList(task.kind)
        IN  task.pc # "idle" =>
                /\ IsPrefix(task.tried, list)
                /\ task.pc = "await" => task.failed = SubSeq(task.tried, 1, Len(task.tried) - 1)
                /\ task.pc = "returned" =>
                        /\ task.tried = Append(task.failed, task.result[1].model)
                /\ task.pc = "raised" =>
                        /\ task.failed = list
                        /\ task.last_error # None
                        /\ task.last_error[1].model = list[Len(list)]

----------------------------------------------------------------------------
(* Claims about get_adaptive_quiz_params, checked under SpecParams.         *)

\* C29: for a user without history (the lookup reports has_history false)
\* and without a difficulty preference, the recommended difficulty is
\* 'medium', with a topic and without one.
C29_NoHistoryIsMedium ==
    (/\ ap_result # None
     /\ ap_preference = None
     /\ ~ap_result[1].user_performance.has_history)
    => ap_result[1].difficulty = MEDIUM

----------------------------------------------------------------------------
(* The order of the checks of grade_session, checked under Spec.            *)

C30_Call(t, sid, u) ==
    IF ~StoredUnexpired(sid)
    THEN Raised /\ last'.error = NotFoundError
    ELSE IF sessions[sid].user_id # u
    THEN Raised /\ last'.error = ForbiddenError
    ELSE sessions[sid].completed => Raised /\ last'.error = AlreadyGradedError

\* C30: grade_session checks existence and expiry first, then ownership, then
\* completion: on an expired session any caller gets the not-found error,
\* also when the session is completed or another user's; on a stored session
\* a non-owner gets the permission error, also when the session is completed;
\* only the owner of a completed session gets the already-graded error.
C30_CheckOrder == [][ForGradeStep(C30_Call)]_vars

\* C30: a non-owner's call on a completed session has failed with the
\* permission error.
C30_Witness ==
    /\ last.op = "grade"
    /\ last.error = ForbiddenError
    /\ last.session_id \in DOMAIN sessions
    /\ sessions[last.session_id].completed
    /\ last.user_id # sessions[last.session_id].user_id

----------------------------------------------------------------------------
(* Completion and the grade result, checked under SpecGrade.                *)

\* Every stored session that is completed has a call that returned its grade
\* or is computing it.
C31_CompletedHasWinner ==
    \A sid \in DOMAIN sessions :
        sessions[sid].completed => graded[sid] + InFlight(sid) >= 1

\* A call that is past the lock ends by returning the grade of its session.
C31_GradingReturns ==
    \A t \in Threads :
        (th[t].pc = "grading" /\ th'[t].pc = "idle") =>
            /\ last'.error = NoError
            /\ last'.result # None
            /\ last'.session_id = th[t].session_id
            /\ last'.result[1].total = Len(th[t].questions)
            /\ graded'[th[t].session_id] = graded[th[t].session_id] + 1

\* C31: every grade_session call that sets completed returns a grade result:
\* grading, which runs after the flag is set and the lock is released, does
\* not fail on any list of answers or any stored list of questions, so no
\* session is completed without a caller that has, or is about to have, its
\* result.
C31_FlagMeansResult == []C31_CompletedHasWinner /\ [][C31_GradingReturns]_vars

\* C31: a completed session was graded on fewer answers than it has
\* questions, and the call returned a result.
C31_Witness ==
    /\ last.op = "grade"
    /\ last.result # None
    /\ last.session_id \in DOMAIN sessions
    /\ sessions[last.session_id].completed
    /\ \E i \in 1..Len(last.result[1].questions) :
            last.result[1].questions[i].user_answer = None

----------------------------------------------------------------------------
(* The two sweeps, checked under SpecSweep.                                 *)

\* The sweep of the session store in this step has removed the sessions older
\* than the TTL and no other.
SessionsSwept ==
    \A sid \in DOMAIN sessions :
        sid \in DOMAIN sessions' <=> ~(now - sessions[sid].created_at > SESSION_TTL_SECONDS)

C32_GradeSweeps(t, sid, u) == SessionsSwept

C32_SessionStep ==
    /\ \A sid \in DOMAIN sessions \ DOMAIN sessions' :
            now - sessions[sid].created_at > SESSION_TTL_SECONDS
    /\ nextId' # nextId => SessionsSwept
    /\ ForGradeStep(C32_GradeSweeps)

C32_CacheStep ==
    \A c \in Callers :
        (callers[c].pc = "sweep" /\ callers'[c].pc = "lookup") =>
            /\ \A k \in Keys(cache) :
                    k \in Keys(cache') <=>
                        ~(callers[c].current_time - EntryOf(cache, k).timestamp > CACHE_TTL)
            /\ \A k \in Keys(cache) \ Keys(cache') :
                    now - EntryOf(cache, k).timestamp > CACHE_TTL
            /\ \A k \in Keys(cache') : EntryOf(cache', k) = EntryOf(cache, k)

\* C32: no sweep removes an item that is within its TTL. The sweep inside
\* create_session and grade_session removes exactly the sessions older than
\* 3600 seconds; the sweep of the cache removes exactly the entries older than
\* ttl_seconds at the time it read the clock, each of them older than the TTL
\* when it is removed, also when a set of the same key ran in between; an
\* item whose age is the TTL is kept.
C32_SweepsOnlyExpired == [][C32_SessionStep /\ C32_CacheStep]_vars

\* C32: a sweep of the cache has just run and an entry whose age is the TTL
\* is still stored.
C32_Witness ==
    /\ last_cleanup = now /\ now > 0
    /\ \E c \in Callers : callers[c].pc = "lookup"
    /\ \E i \in 1..Len(cache) : now - cache[i].timestamp = CACHE_TTL

----------------------------------------------------------------------------
(* The difficulty loop, checked under SpecLoop.                             *)

C33_Reached ==
    /\ (fl_band = "high" /\ fl_steps >= 3) => fl_level = EXPERT
    /\ (fl_band = "low" /\ fl_steps >= 3) => fl_level = EASY
    /\ fl_band = "middle" => Lower(fl_level) = Lower(fl_start)

C33_Step ==
    /\ fl_level' \in KnownLevels
    /\ fl_band = "high" => Rung(fl_level') >= Rung(Lower(fl_level))
    /\ fl_band = "low" => Rung(fl_level') <= Rung(Lower(fl_level))
    /\ fl_band = "middle" => fl_level' = Lower(fl_level)

----------------------------------------------------------------------------
(* Reads, overwrites and eviction in the cache, checked under SpecCache.    *)

C34_Step ==
    /\ \A k \in Keys(cache) \cap Keys(cache') :
            EntryOf(cache', k).timestamp # EntryOf(cache, k).timestamp => clast'.op = "set"
    /\ \A c \in Callers :
            IsLookupStep(c) =>
                LET key == KeyOf(callers[c].request)
                IN  /\ clast'.branch = "hit" =>
                            EntryOf(cache', key) =
                                [EntryOf(cache, key) EXCEPT !.hits = @ + 1,
                                                            !.last_accessed = now]
                    /\ StoredExpired(key) =>
                            /\ clast'.result = None
                            /\ key \notin Keys(cache')

\* C34: a hit changes the hit count and last_accessed of its entry and
\* nothing else; only a set changes the timestamp of a stored entry; and a
\* get of an entry set more than ttl_seconds ago returns nothing, however
\* often and however recently the entry was read.
C34_HitKeepsTimestamp == [][C34_Step]_vars

\* C34: an entry that was read less than a TTL ago is past its TTL.
C34_Witness ==
    \E i \in 1..Len(cache) :
        /\ cache[i].hits >= 1
        /\ cache[i].last_accessed > cache[i].timestamp
        /\ now - cache[i].last_accessed < CACHE_TTL
        /\ now - cache[i].timestamp > CACHE_TTL

C35_Step ==
    \A request \in CacheRequests, response \in Responses :
        (IsSetStep(request, response) /\ KeyOf(request) \in Keys(cache)) =>
            LET key == KeyOf(request)
                e == EntryOf(cache', key)
            IN  /\ e.response = response
                /\ e.timestamp = now /\ e.last_accessed = now
                /\ e.hits = 0
                /\ e.model = request.model
                /\ Len(cache') = Len(cache)
                /\ OthersUnchanged(key)

\* C35: a set on a stored key replaces the entry as if it were new: the
\* payload is the new payload, timestamp and last_accessed are the time of
\* the set, the hit count is 0; the number of entries and every other entry
\* are unchanged.
C35_ReplaceIsNew == [][C35_Step]_vars

\* C35: an entry set at time 0 has been overwritten later, next to another
\* entry.
C35_Witness ==
    /\ clast.op = "set" /\ clast.branch = "replace"
    /\ now > 0
    /\ Len(cache) = 2
    /\ \E i \in 1..Len(cache) :
            cache[i].timestamp = now /\ cache[i].hits = 0 /\ cache[i].response = "r2"

\* The stored entry that was read or written longest ago, expired or not; the
\* earliest stored of several.
OldestAccess(store) ==
    LET i == CHOOSE i \in 1..Len(store) :
                /\ \A j \in 1..Len(store) : store[j].last_accessed >= store[i].last_accessed
                /\ \A j \in 1..(i - 1) : store[j].last_accessed > store[i].last_accessed
    IN  store[i].key

C36_Step ==
    \A request \in CacheRequests, response \in Responses :
        (/\ IsSetStep(request, response)
         /\ KeyOf(request) \notin Keys(cache)
         /\ Len(cache) >= CacheMaxSize) =>
            LET victim == OldestAccess(cache)
            IN  /\ victim \notin Keys(cache')
                /\ \A k \in Keys(cache) \ {victim} :
                        k \in Keys(cache') /\ EntryOf(cache', k) = EntryOf(cache, k)

\* C36: the entry that set evicts is the one with the smallest last_accessed
\* of all stored entries, whether past their TTL or not: every other entry,
\* an expired one included, stays stored.
C36_EvictionIgnoresExpiry == [][C36_Step]_vars

\* C36: set has just evicted an entry while an entry that is past its TTL,
\* and was read after it was written, is still stored.
C36_Witness ==
    /\ clast.op = "set" /\ clast.branch = "evict"
    /\ \E i \in 1..Len(cache) :
            /\ IsExpired(cache[i], now)
            /\ cache[i].hits >= 1
            /\ cache[i].last_accessed > cache[i].timestamp

----------------------------------------------------------------------------
(* The class attribute MODELS['primary'] across calls, under SpecFallback.  *)

\* C37: once every call of the fallback has returned or raised, overlapping
\* calls included, MODELS['primary'] has the value it had before the calls,
\* and the first attempt of every call uses that model.
C37_PrimaryPreserved ==
    /\ (\A t \in Tasks : fb[t].pc \in {"idle", "returned", "raised"}) => primary = PRIMARY_MODEL
    /\ \A t \in Tasks :
            (fb[t].kind = "adaptive" /\ fb[t].tried # <<>>) => fb[t].tried[1] = PRIMARY_MODEL

----------------------------------------------------------------------------
(* The two XP implementations, checked under SpecCompare.                   *)

===========================================================================
